---------------------------- MODULE Spec2Model ----------------------------
(***************************************************************************)
(* A model of the command execution and validation core of the Cassandra   *)
(* MCP server: the CommandRegistry (src/src/command_registry.py) and the   *)
(* NodeToolExecutor (src/src/nodetool_executor.py).                        *)
(*                                                                         *)
(* Python values are modelled as records [type, val].  A Python string is  *)
(* a sequence of tokens: its characters where the code inspects them (a    *)
(* target host), coarser tokens elsewhere.  A Python dict is a function    *)
(* whose domain is the set of keys that are present.                       *)
(***************************************************************************)
EXTENDS Integers, Sequences, FiniteSets, TLC

VARIABLES
    commands,            \* CommandRegistry._commands: name -> metadata dict
    cassandra_bin_path,  \* ConfigurationManager.config.cassandra_bin_path
    request,             \* the operation the caller has called, with its inputs ("none": no call)
    outcome,             \* what that operation did: exception, log, executor call, process, result
    prev,                \* summary of the dispatch before the last one (SpecPair only)
    tasks,               \* the running execute_command coroutines, one per caller: locals and position
    process,             \* the child process of each caller's coroutine
    auth,                \* AuthenticationManager: config.api_keys and _api_keys
    mcp_call,            \* the last MCPServer.handle_call_tool: its inputs and what it did
    call,                \* the last application of a pure function: [fn, arg, ret]
    app,                 \* Application: _running, shutdown_event, the position of run()
    config_manager       \* ConfigurationManager: config, and the configuration file it reads

vars == <<commands, cassandra_bin_path, request, outcome, prev,
          tasks, process, auth, mcp_call, call, app, config_manager>>

\* the state of the registry and of its one sequential caller
registryVars == <<commands, cassandra_bin_path, request, outcome, prev>>
\* the state of the step-by-step executor
executorVars == <<tasks, process>>
\* the state of the authentication manager and the MCP layer
serverVars == <<auth, mcp_call>>
\* the state of the application and of its configuration manager
appVars == <<app, config_manager>>

----------------------------------------------------------------------------
(* Python values *)

PyStr(s) == [type |-> "str", val |-> s]
PyInt(digits) == [type |-> "int", val |-> digits]
PyNone == [type |-> "NoneType", val |-> <<>>]

\* bool(v): the truth value Python gives v in `if v:` and `not v`
Truthy(v) ==
    CASE v.type = "str" -> v.val # <<>>
      [] v.type = "int" -> v.val # <<"0">>
      [] OTHER -> FALSE

\* isinstance(v, str)
IsInstanceStr(v) == v.type = "str"

\* d.get(k, default)
DictGet(d, k, default) == IF k \in DOMAIN d THEN d[k] ELSE default

EmptyDict == [k \in {} |-> PyNone]

----------------------------------------------------------------------------
(* NodeToolExecutor._validate_ip_format: the two regular expressions,      *)
(* matched by re.match, and the octet range check                          *)

AsciiDigits == {"0", "1", "2", "3", "4", "5", "6", "7", "8", "9"}
HexLetters == {"a", "b", "c", "d", "e", "f", "A", "B", "C", "D", "E", "F"}

\* the value int() gives a decimal digit
DigitValue(c) ==
    CASE c = "0" -> 0 [] c = "1" -> 1 [] c = "2" -> 2 [] c = "3" -> 3
      [] c = "4" -> 4 [] c = "5" -> 5 [] c = "6" -> 6 [] c = "7" -> 7
      [] c = "8" -> 8 [] c = "9" -> 9 [] c = "U+0663" -> 3 [] OTHER -> 0

\* a decimal digit outside ASCII (category Nd), which \d of a str pattern
\* matches and int() converts: "U+0663" stands for the one character
\* ARABIC-INDIC DIGIT THREE
UnicodeDigits == {"U+0663"}

\* \d of a str pattern
IsDigit(c) == c \in AsciiDigits \cup UnicodeDigits

\* [0-9a-fA-F]
IsHex(c) == c \in AsciiDigits \cup HexLetters

\* s.split(sep) for a one-character separator
RECURSIVE SplitFrom(_, _, _, _)
SplitFrom(s, sep, i, cur) ==
    IF i > Len(s) THEN <<cur>>
    ELSE IF s[i] = sep THEN <<cur>> \o SplitFrom(s, sep, i + 1, <<>>)
    ELSE SplitFrom(s, sep, i + 1, Append(cur, s[i]))

Split(s, sep) == SplitFrom(s, sep, 1, <<>>)

\* `$` of re.match without re.MULTILINE: the end of the string, or the
\* position before a newline that ends the string
BeforeDollar(s) ==
    IF Len(s) > 0 /\ s[Len(s)] = "\n" THEN {s, SubSeq(s, 1, Len(s) - 1)} ELSE {s}

\* ^(\d{1,3}\.){3}\d{1,3}  against the whole of body
MatchesIPv4Body(body) ==
    LET groups == Split(body, ".")
    IN  /\ Len(groups) = 4
        /\ \A g \in 1..4 :
              /\ Len(groups[g]) \in 1..3
              /\ \A j \in 1..Len(groups[g]) : IsDigit(groups[g][j])

MatchesIPv4(ip) == \E body \in BeforeDollar(ip) : MatchesIPv4Body(body)

\* ^([0-9a-fA-F]{0,4}:){2,7}[0-9a-fA-F]{0,4}  against the whole of body
MatchesIPv6Body(body) ==
    LET groups == Split(body, ":")
    IN  /\ Len(groups) - 1 \in 2..7
        /\ \A g \in 1..Len(groups) :
              /\ Len(groups[g]) \in 0..4
              /\ \A j \in 1..Len(groups[g]) : IsHex(groups[g][j])

MatchesIPv6(ip) == \E body \in BeforeDollar(ip) : MatchesIPv6Body(body)

\* int(octet): surrounding whitespace is stripped, then decimal digits
RECURSIVE DecimalValue(_)
DecimalValue(s) ==
    IF s = <<>> THEN 0
    ELSE 10 * DecimalValue(SubSeq(s, 1, Len(s) - 1)) + DigitValue(s[Len(s)])

StripNewline(s) ==
    IF Len(s) > 0 /\ s[Len(s)] = "\n" THEN SubSeq(s, 1, Len(s) - 1) ELSE s

IntOf(octet) == DecimalValue(StripNewline(octet))

_validate_ip_format(ip) ==
    IF MatchesIPv4(ip)
    THEN LET octets == Split(ip, ".")
         IN  \A o \in 1..Len(octets) : IntOf(octets[o]) >= 0 /\ IntOf(octets[o]) <= 255
    ELSE MatchesIPv6(ip)

----------------------------------------------------------------------------
(* CommandRegistry: the allow-list and the catalog built by __init__ *)

SAFE_COMMANDS ==
    {"status", "ring", "info", "netstats",
     "repair", "snapshot", "cleanup", "compact",
     "getsstables", "getcompactionthroughput", "getconcurrentcompactors"}

MonitoringCommands == {"status", "ring", "info", "netstats"}
MaintenanceCommands == {"repair", "snapshot", "cleanup", "compact"}
ExtendedCommands == {"getsstables", "getcompactionthroughput", "getconcurrentcompactors"}

_register_monitoring_commands(n) ==
    [description |-> <<"description of ", n>>, category |-> "monitoring",
     requires_args |-> FALSE, safe |-> TRUE]

_register_maintenance_commands(n) ==
    [description |-> <<"description of ", n>>, category |-> "maintenance",
     requires_args |-> FALSE, safe |-> TRUE,
     optional_args |-> IF n = "snapshot" THEN <<"tag", "keyspace">>
                       ELSE <<"keyspace", "table">>]

_register_extended_commands(n) ==
    IF n = "getsstables"
    THEN [description |-> <<"description of ", n>>, category |-> "extended",
          requires_args |-> TRUE, safe |-> TRUE,
          required_args |-> <<"keyspace", "table", "key">>]
    ELSE [description |-> <<"description of ", n>>, category |-> "extended",
          requires_args |-> FALSE, safe |-> TRUE]

_initialize_commands ==
    [n \in MonitoringCommands \cup MaintenanceCommands \cup ExtendedCommands |->
        IF n \in MonitoringCommands THEN _register_monitoring_commands(n)
        ELSE IF n \in MaintenanceCommands THEN _register_maintenance_commands(n)
        ELSE _register_extended_commands(n)]

\* self._commands[name] = handler
DictSet(d, k, v) == [x \in DOMAIN d \cup {k} |-> IF x = k THEN v ELSE d[x]]

NoLog == <<>>

\* register_command without the allow-list test
register_command_NoAllowList(cmds, name, handler) ==
    IF handler.type # "dict"
    THEN [raised |-> "ValueError", log |-> NoLog, commands |-> cmds]
    ELSE [raised |-> "", log |-> <<"Registered command: ", name>>,
          commands |-> DictSet(cmds, name, handler.val)]

\* register_command storing the handler before it tests the name
register_command_AssignFirst(cmds, name, handler) ==
    IF handler.type # "dict"
    THEN [raised |-> "ValueError", log |-> NoLog, commands |-> cmds]
    ELSE IF name \notin SAFE_COMMANDS
    THEN [raised |-> "ValueError",
          log |-> <<"Attempting to register unsafe command: ", name>>,
          commands |-> DictSet(cmds, name, handler.val)]
    ELSE [raised |-> "", log |-> <<"Registered command: ", name>>,
          commands |-> DictSet(cmds, name, handler.val)]

\* register_command rebuilding the catalog around the new entry
register_command_ResetsCatalog(cmds, name, handler) ==
    IF handler.type # "dict"
    THEN [raised |-> "ValueError", log |-> NoLog, commands |-> cmds]
    ELSE IF name \notin SAFE_COMMANDS
    THEN [raised |-> "ValueError",
          log |-> <<"Attempting to register unsafe command: ", name>>,
          commands |-> cmds]
    ELSE [raised |-> "", log |-> <<"Registered command: ", name>>,
          commands |-> DictSet(_initialize_commands, name, handler.val)]

\* register_command: what it raises, what it logs and the catalog it leaves
register_command(cmds, name, handler) ==
    IF handler.type # "dict"
    THEN [raised |-> "ValueError", log |-> NoLog, commands |-> cmds]
    ELSE IF name \notin SAFE_COMMANDS
    THEN [raised |-> "ValueError",
          log |-> <<"Attempting to register unsafe command: ", name>>,
          commands |-> cmds]
    ELSE [raised |-> "", log |-> <<"Registered command: ", name>>,
          commands |-> DictSet(cmds, name, handler.val)]

\* the required-argument test looking only at the presence of the key
FirstMissing_PresenceOnly(required_args, args) ==
    LET bad == {i \in 1..Len(required_args) : required_args[i] \notin DOMAIN args}
    IN  IF bad = {} THEN 0 ELSE CHOOSE i \in bad : \A j \in bad : i <= j

\* lines 181-184: the first required argument that is absent from args or
\* falsy, 0 if there is none
FirstMissing(required_args, args) ==
    LET bad == {i \in 1..Len(required_args) :
                   \/ required_args[i] \notin DOMAIN args
                   \/ ~Truthy(args[required_args[i]])}
    IN  IF bad = {} THEN 0 ELSE CHOOSE i \in bad : \A j \in bad : i <= j

\* validate_command without the type test of target_host
TargetHostTypeInvalid_Never(args) == FALSE

\* lines 187-191: a target_host that is provided and is no string
TargetHostTypeInvalid(args) ==
    /\ "target_host" \in DOMAIN args
    /\ Truthy(args["target_host"])
    /\ ~IsInstanceStr(args["target_host"])

\* validate_command: its return value and the error it logs
validate(cmds, name, args) ==
    IF name \notin DOMAIN cmds
    THEN [ok |-> FALSE, log |-> <<"Unknown command: ", name>>]
    ELSE
    LET command_meta == cmds[name]
        required_args == DictGet(command_meta, "required_args", <<>>)
        missing == IF DictGet(command_meta, "requires_args", FALSE)
                   THEN FirstMissing(required_args, args) ELSE 0
    IN  IF ~DictGet(command_meta, "safe", FALSE)
        THEN [ok |-> FALSE, log |-> <<"Unsafe command: ", name>>]
        ELSE IF missing # 0
        THEN [ok |-> FALSE,
              log |-> <<"Missing required argument '", required_args[missing],
                        "' for command '", name, "'">>]
        ELSE IF TargetHostTypeInvalid(args)
        THEN [ok |-> FALSE,
              log |-> <<"Invalid target_host type for command '", name, "'">>]
        ELSE [ok |-> TRUE, log |-> NoLog]

validate_command(cmds, name, args) == validate(cmds, name, args).ok

----------------------------------------------------------------------------
(* NodeToolExecutor *)

\* NodeToolExecutor.__init__: timeout: int = 300
timeout == 300

\* str(Path(cassandra_bin_path) / "nodetool"); a path is the sequence of its components
nodetool_path(bin) == Append(bin, "nodetool")

\* build_command appending the host option after the command
build_command_HostAfterCommand(bin, base_command, args, host) ==
    <<nodetool_path(bin)>>
    \o <<(<<base_command>>)>>
    \o (IF Truthy(host) THEN <<(<<"-h">>), host.val>> ELSE <<>>)
    \o args

\* build_command(base_command, args, host): the argument vector; every
\* element is a string, that is a sequence of tokens
build_command(bin, base_command, args, host) ==
    <<nodetool_path(bin)>>
    \o (IF Truthy(host) THEN <<(<<"-h">>), host.val>> ELSE <<>>)
    \o <<(<<base_command>>)>>
    \o args

\* what the child process does once asked for: the environment's choice
ProcessBehaviours == {"exit0", "exit1", "timeout", "FileNotFoundError", "OSError"}

\* time.time() - start_time, in whole seconds
MaxElapsed == 1
ElapsedTimes == 0..MaxElapsed

CommandResult(success, command, stdout, stderr, execution_time, target_host) ==
    [success |-> success, command |-> command, stdout |-> stdout, stderr |-> stderr,
     execution_time |-> execution_time, target_host |-> target_host]

NoResult == CommandResult(FALSE, "", <<>>, <<>>, 0, PyNone)
NoInvocation == [command |-> "", target_host |-> PyNone]

\* the host test with the regular expressions only, the octet range left out
HostRejected_NoRange(target_host) ==
    Truthy(target_host) /\ ~(MatchesIPv4(target_host.val) \/ MatchesIPv6(target_host.val))

\* lines 50-51: a target host that is provided and fails the IP format check
HostRejected(target_host) ==
    Truthy(target_host) /\ ~_validate_ip_format(target_host.val)

\* NodeToolExecutor.execute_command(command, target_host) with the child
\* process behaving as proc and the clock reading t at the end.  proc of the
\* value is the behaviour of the process asked for, "" when none was
executor_execute_command(bin, command, target_host, proc, t) ==
    LET cmd_parts == build_command(bin, command, <<>>, target_host)
        none == [raised |-> "", proc |-> "", spawned |-> FALSE, argv |-> <<>>,
                 killed |-> FALSE, returned |-> TRUE, result |-> NoResult]
        asked == [none EXCEPT !.proc = proc]
        failed(msg) == CommandResult(FALSE, command, <<>>, msg, t, target_host)
    IN
    IF Truthy(target_host) /\ ~IsInstanceStr(target_host)
    THEN \* re.match on a value that is no string raises, outside every try
         [none EXCEPT !.raised = "TypeError", !.returned = FALSE]
    ELSE IF HostRejected(target_host)
    THEN [none EXCEPT !.result = failed(<<"Invalid IP format: ">> \o target_host.val)]
    ELSE
    CASE proc = "FileNotFoundError" ->
           [asked EXCEPT !.result = failed(<<"nodetool executable not found: ", proc>>)]
      [] proc = "OSError" ->
           [asked EXCEPT !.result = failed(<<"Unexpected error executing command: ", proc>>)]
      [] proc = "timeout" ->
           [asked EXCEPT !.spawned = TRUE, !.argv = cmd_parts, !.killed = TRUE,
                         !.result = failed(<<"Command timed out after ", ToString(timeout),
                                             " seconds">>)]
      [] proc = "exit0" ->
           [asked EXCEPT !.spawned = TRUE, !.argv = cmd_parts,
                         !.result = CommandResult(TRUE, command, <<"out">>, <<>>, t,
                                                  target_host)]
      [] OTHER ->
           [asked EXCEPT !.spawned = TRUE, !.argv = cmd_parts,
                         !.result = CommandResult(FALSE, command, <<>>, <<"err">>, t,
                                                  target_host)]

----------------------------------------------------------------------------
(* CommandRegistry.execute_command *)

\* a validation failure whose stderr is the error validate_command logged
ValidationFailure_Explains(cmds, name, args) ==
    CommandResult(FALSE, name, <<>>, validate(cmds, name, args).log,
                  0, DictGet(args, "target_host", PyNone))

\* lines 207-216: the result of a request that fails validation
ValidationFailure(cmds, name, args) ==
    CommandResult(FALSE, name, <<>>, <<"Command validation failed for '", name, "'">>,
                  0, DictGet(args, "target_host", PyNone))

\* execute_command calling the executor before it looks at the validation
registry_execute_command_NoShortCircuit(cmds, bin, name, args, proc, t) ==
    LET v == validate(cmds, name, args)
        target_host == DictGet(args, "target_host", PyNone)
        ex == executor_execute_command(bin, name, target_host, proc, t)
    IN  [raised |-> ex.raised, log |-> v.log, proc |-> ex.proc, invoked |-> TRUE,
         invocation |-> [command |-> name, target_host |-> target_host],
         spawned |-> ex.spawned, argv |-> ex.argv, killed |-> ex.killed,
         returned |-> ex.returned,
         result |-> IF v.ok THEN ex.result ELSE ValidationFailure(cmds, name, args)]

\* execute_command handing the keyspace on to the command line
registry_execute_command_ForwardsArgs(cmds, bin, name, args, proc, t) ==
    LET v == validate(cmds, name, args)
        target_host == DictGet(args, "target_host", PyNone)
        ex == executor_execute_command(bin, name, target_host, proc, t)
        extra == IF "keyspace" \in DOMAIN args THEN <<args["keyspace"].val>> ELSE <<>>
    IN  IF ~v.ok
        THEN [raised |-> "", log |-> v.log, proc |-> "", invoked |-> FALSE,
              invocation |-> NoInvocation, spawned |-> FALSE, argv |-> <<>>,
              killed |-> FALSE, returned |-> TRUE,
              result |-> ValidationFailure(cmds, name, args)]
        ELSE [raised |-> ex.raised, log |-> v.log, proc |-> ex.proc, invoked |-> TRUE,
              invocation |-> [command |-> name, target_host |-> target_host],
              spawned |-> ex.spawned,
              argv |-> IF ex.spawned THEN ex.argv \o extra ELSE ex.argv,
              killed |-> ex.killed, returned |-> ex.returned, result |-> ex.result]

\* what one dispatch did: the error validate_command logged, the call made to
\* the executor, the process asked for and spawned, and the result returned
registry_execute_command(cmds, bin, name, args, proc, t) ==
    LET v == validate(cmds, name, args)
        target_host == DictGet(args, "target_host", PyNone)
        ex == executor_execute_command(bin, name, target_host, proc, t)
    IN  IF ~validate_command(cmds, name, args)
        THEN [raised |-> "", log |-> v.log, proc |-> "", invoked |-> FALSE,
              invocation |-> NoInvocation, spawned |-> FALSE, argv |-> <<>>,
              killed |-> FALSE, returned |-> TRUE,
              result |-> ValidationFailure(cmds, name, args)]
        ELSE [raised |-> ex.raised, log |-> v.log, proc |-> ex.proc, invoked |-> TRUE,
              invocation |-> [command |-> name, target_host |-> target_host],
              spawned |-> ex.spawned, argv |-> ex.argv, killed |-> ex.killed,
              returned |-> ex.returned, result |-> ex.result]

----------------------------------------------------------------------------
(* The inputs the operations are called with *)

PyDict(d) == [type |-> "dict", val |-> d]

ValidHost == <<"1", "0", ".", "0", ".", "0", ".", "5">>
InvalidHost == <<"2", "5", "6", ".", "1", ".", "1", ".", "1">>

\* a key of a dict that may be absent
Absent == [present |-> FALSE, v |-> PyNone]
Present(v) == [present |-> TRUE, v |-> v]

HostChoices ==
    {Absent, Present(PyStr(ValidHost)), Present(PyStr(InvalidHost)), Present(PyStr(<<>>)),
     Present(PyInt(<<"1", "2", "3">>)), Present(PyInt(<<"0">>)), Present(PyNone)}

KeyspaceChoices ==
    {Absent, Present(PyStr(<<>>)), Present(PyStr(<<"ks1">>)), Present(PyStr(<<"ks2">>))}

\* the args dict with the given target_host and keyspace, and with table and
\* key when tk
MakeArgs(h, ks, tk) ==
    LET dom == (IF h.present THEN {"target_host"} ELSE {})
               \cup (IF ks.present THEN {"keyspace"} ELSE {})
               \cup (IF tk THEN {"table", "key"} ELSE {})
    IN  [k \in dom |->
            CASE k = "target_host" -> h.v
              [] k = "keyspace" -> ks.v
              [] k = "table" -> PyStr(<<"users">>)
              [] OTHER -> PyStr(<<"123">>)]

ArgDicts == {MakeArgs(h, ks, tk) : h \in HostChoices, ks \in KeyspaceChoices, tk \in BOOLEAN}

Names == {"status", "getsstables", "dangerous_command"}

TestHandler ==
    [description |-> <<"Test command">>, category |-> "test",
     requires_args |-> FALSE, safe |-> TRUE]
UnsafeHandler ==
    [description |-> <<"Unsafe command">>, category |-> "test",
     requires_args |-> FALSE, safe |-> FALSE]
NoSafeKeyHandler == [description |-> <<"No safe key">>]
RequiresHandler ==
    [category |-> "test", requires_args |-> TRUE, safe |-> TRUE,
     required_args |-> <<"keyspace">>]

Handlers ==
    {PyDict(TestHandler), PyDict(UnsafeHandler), PyDict(NoSafeKeyHandler),
     PyDict(RequiresHandler), PyStr(<<"not a dict">>)}

DefaultBinPath == <<"usr", "local", "cassandra", "bin">>
BinPaths == {DefaultBinPath, <<"opt", "cassandra", "bin">>}

----------------------------------------------------------------------------
(* The state machine *)

NoRequest == [op |-> "none", name |-> "", args |-> EmptyDict, handler |-> PyNone]

Idle ==
    [raised |-> "", log |-> NoLog, proc |-> "", valid |-> FALSE, invoked |-> FALSE,
     invocation |-> NoInvocation, spawned |-> FALSE, argv |-> <<>>, killed |-> FALSE,
     returned |-> FALSE, result |-> NoResult]

NoDispatch == [name |-> "", target_host |-> PyNone, args |-> EmptyDict, bin |-> <<>>,
               invoked |-> FALSE, invocation |-> NoInvocation,
               spawned |-> FALSE, argv |-> <<>>]

\* the callers that may have an execute_command coroutine in flight
Callers == {"c1", "c2"}

\* a caller with no coroutine in flight
NoTask ==
    [pc |-> "idle", via |-> "", name |-> "", args |-> EmptyDict,
     command |-> "", target_host |-> PyNone, cmd_parts |-> <<>>,
     kill |-> "", waited |-> FALSE, raised |-> "", result |-> NoResult]

\* no child process; returncode <<>> is None
NoProcess == [state |-> "none", returncode |-> <<>>, stdout |-> <<>>, stderr |-> <<>>]

\* an authentication manager that is not constructed yet
NoAuth ==
    [constructed |-> FALSE, config_api_keys |-> <<>>, _api_keys |-> <<>>, log |-> <<>>]

\* no line logged by log_auth_attempt
NoLine == [level |-> "", outcome |-> "", ip |-> PyNone, api_key |-> <<>>]

\* no handle_call_tool yet
NoMcpCall ==
    [name |-> <<>>, arguments |-> EmptyDict, auth_status |-> 0, log |-> NoLine,
     raised |-> "", error_code |-> "", invoked |-> FALSE,
     command_name |-> "", command_args |-> EmptyDict, result |-> NoResult]

\* no function applied yet
NoCall == [fn |-> "", arg |-> <<>>, ret |-> <<>>]

\* Application.__init__
NoApp ==
    [_running |-> FALSE, shutdown_event |-> FALSE, handlers |-> FALSE,
     pc |-> "new", runs |-> 0, shutdown_steps |-> 0,
     last |-> [op |-> "", was_running |-> FALSE, ran_steps |-> FALSE, consecutive |-> 0]]

\* self.config = None
\* ConfigurationManager.__init__: no configuration yet; file is what the
\* configuration file holds, last the last operation and old_config the
\* configuration before it
NoneConfig ==
    [is_none |-> TRUE, java_home |-> <<>>, cassandra_bin_path |-> <<>>, api_keys |-> <<>>]

NoConfigManager ==
    [config |-> NoneConfig, old_config |-> NoneConfig,
     file |-> [kind |-> "missing", data |-> EmptyDict], last |-> ""]

\* the components a specification leaves alone stay as constructed
RegistryIdle ==
    /\ commands = _initialize_commands
    /\ cassandra_bin_path = DefaultBinPath
    /\ request = NoRequest
    /\ outcome = Idle
    /\ prev = NoDispatch

ExecutorIdle ==
    /\ tasks = [c \in Callers |-> NoTask]
    /\ process = [c \in Callers |-> NoProcess]

ServerIdle ==
    /\ auth = NoAuth
    /\ mcp_call = NoMcpCall

AppIdle ==
    /\ app = NoApp
    /\ config_manager = NoConfigManager

Init ==
    /\ commands = _initialize_commands
    /\ cassandra_bin_path \in BinPaths
    /\ request = NoRequest
    /\ outcome = Idle
    /\ prev = NoDispatch
    /\ ExecutorIdle
    /\ AppIdle
    /\ ServerIdle
    /\ call = NoCall

\* registry.register_command(name, handler)
RegisterCommand(name, handler) ==
    LET r == register_command(commands, name, handler)
    IN  /\ request = NoRequest
        /\ request' = [op |-> "register_command", name |-> name, args |-> EmptyDict,
                       handler |-> handler]
        /\ commands' = r.commands
        /\ outcome' = [Idle EXCEPT !.raised = r.raised, !.log = r.log,
                                   !.returned = (r.raised = "")]
        /\ UNCHANGED <<cassandra_bin_path, prev, executorVars, appVars, serverVars, call>>

\* registry.validate_command(name, args)
ValidateCommand(name, args) ==
    LET v == validate(commands, name, args)
    IN  /\ request = NoRequest
        /\ request' = [op |-> "validate_command", name |-> name, args |-> args,
                       handler |-> PyNone]
        /\ outcome' = [Idle EXCEPT !.log = v.log, !.returned = TRUE,
                                   !.valid = validate_command(commands, name, args)]
        /\ UNCHANGED <<commands, cassandra_bin_path, prev, executorVars, appVars, serverVars, call>>

\* await registry.execute_command(name, args), the child process behaving as proc
Dispatch(name, args, proc, t) ==
    LET d == registry_execute_command(commands, cassandra_bin_path, name, args, proc, t)
    IN  /\ request = NoRequest
        /\ request' = [op |-> "execute_command", name |-> name, args |-> args,
                       handler |-> PyNone]
        /\ outcome' = [raised |-> d.raised, log |-> d.log, proc |-> d.proc,
                       valid |-> validate_command(commands, name, args),
                       invoked |-> d.invoked, invocation |-> d.invocation,
                       spawned |-> d.spawned, argv |-> d.argv, killed |-> d.killed,
                       returned |-> d.returned, result |-> d.result]
        /\ UNCHANGED <<commands, cassandra_bin_path, executorVars, appVars, serverVars, call>>

ExecuteCommand(name, args, proc, t) ==
    /\ Dispatch(name, args, proc, t)
    /\ UNCHANGED prev

\* config_manager.reload_config() finding bin as the valid Cassandra path
ReloadConfig(bin) ==
    /\ request = NoRequest
    /\ cassandra_bin_path' = bin
    /\ request' = [NoRequest EXCEPT !.op = "reload_config"]
    /\ outcome' = [Idle EXCEPT !.returned = TRUE]
    /\ UNCHANGED <<commands, prev, executorVars, appVars, serverVars, call>>

\* the caller takes what the operation returned or raised
Return ==
    /\ request # NoRequest
    /\ request' = NoRequest
    /\ outcome' = Idle
    /\ UNCHANGED <<commands, cassandra_bin_path, prev, executorVars, appVars, serverVars, call>>

Next ==
    \/ \E name \in Names, handler \in Handlers : RegisterCommand(name, handler)
    \/ \E name \in Names, args \in ArgDicts : ValidateCommand(name, args)
    \/ \E name \in Names, args \in ArgDicts, proc \in ProcessBehaviours, t \in ElapsedTimes :
          ExecuteCommand(name, args, proc, t)
    \/ \E bin \in BinPaths : ReloadConfig(bin)
    \/ Return

Spec == Init /\ [][Next]_vars

----------------------------------------------------------------------------
(* Two dispatches in a row: the caller keeps what the first one did *)

DispatchSummary ==
    [name |-> request.name, target_host |-> DictGet(request.args, "target_host", PyNone),
     args |-> request.args, bin |-> cassandra_bin_path,
     invoked |-> outcome.invoked, invocation |-> outcome.invocation,
     spawned |-> outcome.spawned, argv |-> outcome.argv]

\* the caller takes the result of a dispatch and remembers it
ReturnRemember ==
    /\ request.op = "execute_command"
    /\ prev' = DispatchSummary
    /\ request' = NoRequest
    /\ outcome' = Idle
    /\ UNCHANGED <<commands, cassandra_bin_path, executorVars, appVars, serverVars, call>>

\* the caller takes what another operation returned or raised
ReturnOther ==
    /\ request.op # "execute_command"
    /\ Return

PairNames == {"status", "getsstables"}
PairHostChoices == {Absent, Present(PyStr(ValidHost)), Present(PyStr(<<>>))}
PairArgDicts ==
    {MakeArgs(h, ks, tk) : h \in PairHostChoices, ks \in KeyspaceChoices, tk \in BOOLEAN}
PairHandlers == {PyDict(UnsafeHandler), PyDict(RequiresHandler)}

NextPair ==
    \/ \E name \in {"getsstables", "dangerous_command"}, handler \in PairHandlers :
          RegisterCommand(name, handler)
    \/ \E name \in PairNames, args \in PairArgDicts, t \in ElapsedTimes :
          ExecuteCommand(name, args, "exit0", t)
    \/ \E bin \in BinPaths : ReloadConfig(bin)
    \/ ReturnRemember
    \/ ReturnOther

SpecPair == Init /\ [][NextPair]_vars

----------------------------------------------------------------------------
(* NodeToolExecutor.execute_command step by step: the coroutine of each     *)
(* caller advances from one await to the next, its child process and the   *)
(* timer of asyncio.wait_for move on their own                             *)

\* the command name a coroutine reports: its own parameter `command`
CommandOf(c) == tasks[c].command

\* the target host kept in one place shared by all the coroutines in flight
TargetHostOf_LastStarted(c) ==
    LET others == {d \in Callers \ {c} : tasks[d].command # ""}
    IN  IF others = {} THEN tasks[c].target_host
        ELSE tasks[CHOOSE d \in others : TRUE].target_host

\* the target host a coroutine reports: its own parameter `target_host`
TargetHostOf(c) == tasks[c].target_host

\* lines 52-62: the result for a host that fails the format check
InvalidHostResult(command, target_host, t) ==
    CommandResult(FALSE, command, <<>>, <<"Invalid IP format: ">> \o target_host.val,
                  t, target_host)

\* lines 98-110: the result after a timeout
TimedOutResult(command, target_host, t) ==
    CommandResult(FALSE, command, <<>>,
                  <<"Command timed out after ", ToString(timeout), " seconds">>,
                  t, target_host)

\* a completed process always reported as a success
CompletedResult_AlwaysSuccess(command, target_host, p, t) ==
    CommandResult(TRUE, command, p.stdout, p.stderr, t, target_host)

\* lines 112-133: the result of a process that completed, p being the process
CompletedResult(command, target_host, p, t) ==
    CommandResult(p.returncode = <<0>>, command, p.stdout, p.stderr, t, target_host)

\* lines 140-153: the result when the executable is not found
NotFoundResult(command, target_host, e, t) ==
    CommandResult(FALSE, command, <<>>, <<"nodetool executable not found: ", e>>,
                  t, target_host)

\* lines 155-168: the result after any other exception
UnexpectedResult(command, target_host, e, t) ==
    CommandResult(FALSE, command, <<>>, <<"Unexpected error executing command: ", e>>,
                  t, target_host)

\* what lines 75-80 do: the process is spawned, the executable is not found,
\* or _get_environment() or create_subprocess_exec raise another exception
SpawnOutcomes == {"spawned", "FileNotFoundError", "PermissionError"}

\* what a process that ends by itself leaves behind
ExitCodes == {0, 1}
StdErrs == {<<>>, <<"err">>}

\* an exception of create_subprocess_exec leaving the coroutine
SpawnError_Propagates(task, command, target_host, how, t) ==
    [task EXCEPT !.pc = "raised", !.raised = how]

\* lines 140-168: an exception of create_subprocess_exec is turned into a result
SpawnError(task, command, target_host, how, t) ==
    [task EXCEPT !.pc = "done",
                 !.result = IF how = "FileNotFoundError"
                            THEN NotFoundResult(command, target_host, how, t)
                            ELSE UnexpectedResult(command, target_host, how, t)]

\* process.wait() returning while the process is still alive
WaitReturns_AtOnce(p) == TRUE

\* line 94: await process.wait() returns once the process has terminated
WaitReturns(p) == p.state \in {"exited", "killed"}

\* await registry.execute_command(name, args) by caller c: validation, then
\* the call of the executor (command_registry.py lines 205-228)
RegistryCall(c, name, args) ==
    /\ tasks[c].pc = "idle"
    /\ tasks' = [tasks EXCEPT ![c] =
          IF ~validate_command(commands, name, args)
          THEN [NoTask EXCEPT !.pc = "done", !.via = "registry", !.name = name,
                              !.args = args,
                              !.result = ValidationFailure(commands, name, args)]
          ELSE [NoTask EXCEPT !.pc = "execute", !.via = "registry", !.name = name,
                              !.args = args, !.command = name,
                              !.target_host = DictGet(args, "target_host", PyNone)]]
    /\ UNCHANGED <<process, registryVars, appVars, serverVars, call>>

\* await executor.execute_command(command) by caller c, as the health check does
ExecutorCall(c, command, target_host) ==
    /\ tasks[c].pc = "idle"
    /\ tasks' = [tasks EXCEPT ![c] =
          [NoTask EXCEPT !.pc = "execute", !.via = "executor", !.name = command,
                         !.args = [k \in {"target_host"} |-> target_host],
                         !.command = command, !.target_host = target_host]]
    /\ UNCHANGED <<process, registryVars, appVars, serverVars, call>>

\* lines 46-71: the host check and the argument vector, up to the first await
ExecutorEnter(c, t) ==
    LET me == tasks[c]
        target_host == TargetHostOf(c)
    IN  /\ me.pc = "execute"
        /\ tasks' = [tasks EXCEPT ![c] =
              IF Truthy(target_host) /\ ~IsInstanceStr(target_host)
              THEN [me EXCEPT !.pc = "raised", !.raised = "TypeError"]
              ELSE IF HostRejected(target_host)
              THEN [me EXCEPT !.pc = "done",
                              !.result = InvalidHostResult(CommandOf(c), target_host, t)]
              ELSE [me EXCEPT !.pc = "spawn",
                              !.cmd_parts = build_command(cassandra_bin_path, CommandOf(c),
                                                          <<>>, target_host)]]
        /\ UNCHANGED <<process, registryVars, appVars, serverVars, call>>

\* lines 75-80: await asyncio.create_subprocess_exec(*cmd_parts, ...)
Spawn(c, how, t) ==
    LET me == tasks[c]
    IN  /\ me.pc = "spawn"
        /\ IF how = "spawned"
           THEN /\ tasks' = [tasks EXCEPT ![c] = [me EXCEPT !.pc = "communicate"]]
                /\ process' = [process EXCEPT ![c] = [NoProcess EXCEPT !.state = "running"]]
           ELSE /\ tasks' = [tasks EXCEPT ![c] =
                                SpawnError(me, CommandOf(c), TargetHostOf(c), how, t)]
                /\ UNCHANGED process
        /\ UNCHANGED <<registryVars, appVars, serverVars, call>>

\* the child process ends by itself
ProcessExit(c, code, err) ==
    /\ process[c].state = "running"
    /\ process' = [process EXCEPT ![c] =
          [state |-> "exited", returncode |-> <<code>>,
           stdout |-> IF code = 0 THEN <<"out">> ELSE <<>>, stderr |-> err]]
    /\ UNCHANGED <<tasks, registryVars, appVars, serverVars, call>>

\* lines 83-88 and 112-138: communicate() completes within the timeout
Communicate(c, t) ==
    LET me == tasks[c]
    IN  /\ me.pc = "communicate"
        /\ process[c].state = "exited"
        /\ tasks' = [tasks EXCEPT ![c] =
              [me EXCEPT !.pc = "done",
                         !.result = CompletedResult(CommandOf(c), TargetHostOf(c),
                                                    process[c], t)]]
        /\ UNCHANGED <<process, registryVars, appVars, serverVars, call>>

\* lines 83-90: the timer of wait_for expires while the process is running
TimeoutExpires(c) ==
    /\ tasks[c].pc = "communicate"
    /\ process[c].state = "running"
    /\ tasks' = [tasks EXCEPT ![c].pc = "kill"]
    /\ UNCHANGED <<process, registryVars, appVars, serverVars, call>>

\* lines 92-96: process.kill(); on a process that has just ended it does
\* nothing or raises ProcessLookupError, which is caught and logged
Kill(c, raises, t) ==
    LET me == tasks[c]
    IN  /\ me.pc = "kill"
        /\ IF process[c].state = "running"
           THEN /\ ~raises
                /\ process' = [process EXCEPT ![c].state = "signalled"]
                /\ tasks' = [tasks EXCEPT ![c] = [me EXCEPT !.pc = "wait", !.kill = "sent"]]
           ELSE /\ UNCHANGED process
                /\ tasks' = [tasks EXCEPT ![c] =
                      IF raises
                      THEN [me EXCEPT !.pc = "done", !.kill = "raised",
                                      !.result = TimedOutResult(CommandOf(c),
                                                                TargetHostOf(c), t)]
                      ELSE [me EXCEPT !.pc = "wait", !.kill = "nothing"]]
        /\ UNCHANGED <<registryVars, appVars, serverVars, call>>

\* the process dies of the SIGKILL it was sent
ProcessDies(c) ==
    /\ process[c].state = "signalled"
    /\ process' = [process EXCEPT ![c].state = "killed", ![c].returncode = <<-9>>]
    /\ UNCHANGED <<tasks, registryVars, appVars, serverVars, call>>

\* lines 94-110: await process.wait() returns and the timeout result is returned
Wait(c, t) ==
    LET me == tasks[c]
    IN  /\ me.pc = "wait"
        /\ WaitReturns(process[c])
        /\ tasks' = [tasks EXCEPT ![c] =
              [me EXCEPT !.pc = "done", !.waited = TRUE,
                         !.result = TimedOutResult(CommandOf(c), TargetHostOf(c), t)]]
        /\ UNCHANGED <<process, registryVars, appVars, serverVars, call>>

\* the caller takes the result (or the exception) and is free to call again
Receive(c) ==
    /\ tasks[c].pc \in {"done", "raised"}
    /\ tasks' = [tasks EXCEPT ![c] = NoTask]
    /\ process' = [process EXCEPT ![c] = NoProcess]
    /\ UNCHANGED <<registryVars, appVars, serverVars, call>>

ExecNames == {"status", "dangerous_command"}
ExecArgDicts ==
    {MakeArgs(h, Absent, FALSE) :
        h \in {Absent, Present(PyStr(ValidHost)), Present(PyStr(InvalidHost)),
               Present(PyInt(<<"1", "2", "3">>))}}
\* the hosts the executor is called with directly: a string or None
ExecHosts == {PyNone, PyStr(InvalidHost)}

InitExec ==
    /\ RegistryIdle
    /\ ExecutorIdle
    /\ AppIdle
    /\ ServerIdle
    /\ call = NoCall

\* the steps of the executor for the given inputs and clock readings
ExecStep(names, argdicts, hosts, times) ==
    \/ \E c \in Callers, name \in names, args \in argdicts : RegistryCall(c, name, args)
    \/ \E c \in Callers, h \in hosts : ExecutorCall(c, "status", h)
    \/ \E c \in Callers, t \in times : ExecutorEnter(c, t)
    \/ \E c \in Callers, how \in SpawnOutcomes, t \in times : Spawn(c, how, t)
    \/ \E c \in Callers, code \in ExitCodes, err \in StdErrs : ProcessExit(c, code, err)
    \/ \E c \in Callers, t \in times : Communicate(c, t)
    \/ \E c \in Callers : TimeoutExpires(c)
    \/ \E c \in Callers, raises \in BOOLEAN, t \in times : Kill(c, raises, t)
    \/ \E c \in Callers : ProcessDies(c)
    \/ \E c \in Callers, t \in times : Wait(c, t)
    \/ \E c \in Callers : Receive(c)

NextExec == ExecStep(ExecNames, ExecArgDicts, ExecHosts, ElapsedTimes)

SpecExec == InitExec /\ [][NextExec]_vars

\* what the event loop and the operating system guarantee: a coroutine that
\* can run does run, create_subprocess_exec completes or raises, the timer of
\* wait_for fires unless communicate() completes first, and a process that
\* was sent SIGKILL dies.  A child process need never end by itself.
CoroutineStep(c) ==
    \/ \E t \in ElapsedTimes : ExecutorEnter(c, t)
    \/ \E how \in SpawnOutcomes, t \in ElapsedTimes : Spawn(c, how, t)
    \/ \E t \in ElapsedTimes : Communicate(c, t)
    \/ TimeoutExpires(c)
    \/ \E raises \in BOOLEAN, t \in ElapsedTimes : Kill(c, raises, t)
    \/ \E t \in ElapsedTimes : Wait(c, t)

FairnessExec ==
    \A c \in Callers : WF_vars(CoroutineStep(c)) /\ WF_vars(ProcessDies(c))

\* termination is checked for fewer inputs: a host that is absent, invalid or
\* no string, and one clock reading
FairArgDicts ==
    {MakeArgs(h, Absent, FALSE) :
        h \in {Absent, Present(PyStr(InvalidHost)), Present(PyInt(<<"1", "2", "3">>))}}

NextExecFair == ExecStep(ExecNames, FairArgDicts, {PyNone}, {0})

SpecExecFair == InitExec /\ [][NextExecFair]_vars /\ FairnessExec

----------------------------------------------------------------------------
(* The executor called by the connectivity probe, which cancels the call  *)
(* after 10 seconds                                                        *)

\* the awaits of execute_command that the 10 seconds of the probe can end
\* before the 300 seconds of the executor: create_subprocess_exec (line 75)
\* and wait_for(process.communicate()) (line 83)
CancellableAt == {"spawn", "communicate"}

\* health_check.py lines 88-91: the timer of wait_for expires and the
\* coroutine is cancelled at its await. CancelledError is neither
\* asyncio.TimeoutError nor an Exception, so no handler of execute_command
\* runs and the call ends; a cancelled create_subprocess_exec leaves no
\* process, a cancelled communicate() leaves the process as it is
CancelWaitFor(c) ==
    /\ tasks[c].via = "executor"
    /\ tasks[c].pc \in CancellableAt
    /\ tasks' = [tasks EXCEPT ![c].pc = "cancelled", ![c].raised = "CancelledError"]
    /\ UNCHANGED <<process, registryVars, appVars, serverVars, call>>

\* check_cassandra_connectivity returns False; the child process, if any,
\* goes on until it ends by itself
ProbeReturns(c) ==
    /\ tasks[c].pc = "cancelled"
    /\ process[c].state \in {"none", "exited"}
    /\ tasks' = [tasks EXCEPT ![c] = NoTask]
    /\ process' = [process EXCEPT ![c] = NoProcess]
    /\ UNCHANGED <<registryVars, appVars, serverVars, call>>

NextProbe ==
    \/ ExecStep(ExecNames, ExecArgDicts, ExecHosts, ElapsedTimes)
    \/ \E c \in Callers : CancelWaitFor(c)
    \/ \E c \in Callers : ProbeReturns(c)

SpecProbe == InitExec /\ [][NextProbe]_vars

----------------------------------------------------------------------------
(* AuthenticationManager (src/src/authentication.py).  An API key is a      *)
(* string, that is the sequence of its characters; the key list of a       *)
(* configuration is a sequence of keys                                     *)

\* self._api_keys = self.config.api_keys.copy(), and the line it logs
_load_api_keys_from_config(config_api_keys) ==
    [_api_keys |-> config_api_keys,
     log |-> IF config_api_keys # <<>>
             THEN <<"Loaded ", ToString(Len(config_api_keys)),
                    " API key(s) from configuration">>
             ELSE <<"No API keys configured - all requests will be rejected">>]

\* api_key in self._api_keys: equality with one of the strings of the list
InKeyList(keys, api_key) ==
    /\ IsInstanceStr(api_key)
    /\ \E i \in 1..Len(keys) : keys[i] = api_key.val

validate_api_key(keys, api_key) ==
    IF ~Truthy(api_key) THEN FALSE ELSE InKeyList(keys, api_key)

get_http_status_code(keys, api_key) ==
    IF ~Truthy(api_key) THEN 401
    ELSE IF ~validate_api_key(keys, api_key) THEN 403
    ELSE 200

\* "*" * n
Stars(n) == [i \in 1..n |-> "*"]

_mask_api_key(api_key) ==
    IF api_key = <<>> THEN <<"[", "e", "m", "p", "t", "y", "]">>
    ELSE IF Len(api_key) <= 8
    THEN <<api_key[1]>> \o Stars(Len(api_key) - 1)
    ELSE SubSeq(api_key, 1, 4) \o <<".", ".", ".">>
         \o SubSeq(api_key, Len(api_key) - 3, Len(api_key))

\* log_auth_attempt(api_key, success, ip): the line it logs; len() of a value
\* that is no string raises TypeError
log_auth_attempt(api_key, success, ip) ==
    IF ~Truthy(api_key) \/ IsInstanceStr(api_key)
    THEN [raised |-> "",
          line |-> [level |-> IF success THEN "info" ELSE "warning",
                    outcome |-> IF success THEN "SUCCESS" ELSE "FAILED",
                    ip |-> ip, api_key |-> _mask_api_key(api_key.val)]]
    ELSE [raised |-> "TypeError", line |-> NoLine]

\* reload_api_keys storing the configuration without loading its keys
reload_api_keys_KeepsKeys(a, config_api_keys) ==
    [a EXCEPT !.config_api_keys = config_api_keys,
              !.log = <<"API keys reloaded: ", ToString(Len(a._api_keys)), " -> ",
                        ToString(Len(a._api_keys))>>]

\* reload_api_keys(config) on the manager a
reload_api_keys(a, config_api_keys) ==
    LET old_count == Len(a._api_keys)
        loaded == _load_api_keys_from_config(config_api_keys)
    IN  [a EXCEPT !.config_api_keys = config_api_keys,
                  !._api_keys = loaded._api_keys,
                  !.log = <<"API keys reloaded: ", ToString(old_count), " -> ",
                            ToString(Len(loaded._api_keys))>>]

\* AuthenticationManager(config)
AuthenticationManager(config_api_keys) ==
    LET loaded == _load_api_keys_from_config(config_api_keys)
    IN  [constructed |-> TRUE, config_api_keys |-> config_api_keys,
         _api_keys |-> loaded._api_keys, log |-> loaded.log]

----------------------------------------------------------------------------
(* MCPServer.handle_call_tool (src/src/mcp_server.py).  A tool name is the  *)
(* sequence of its parts, "cassandra_" being one part                      *)

\* name.startswith("cassandra_")
StartsWithPrefix(name) == Len(name) >= 1 /\ name[1] = "cassandra_"

\* name[len("cassandra_"):] as the name the registry is asked for
StripPrefix(name) == IF Len(name) >= 2 THEN name[2] ELSE ""

\* the whole of the arguments handed on
CommandArgs_All(arguments) == arguments

\* {k: v for k, v in arguments.items() if k not in ["api_key", "client_ip"]}
CommandArgs(arguments) ==
    [k \in DOMAIN arguments \ {"api_key", "client_ip"} |-> arguments[k]]

\* api_key or ""
OrEmpty(api_key) == IF Truthy(api_key) THEN api_key ELSE PyStr(<<>>)

\* handle_call_tool(name, arguments) with the keys loaded, the catalog cmds
\* and the child process behaving as proc: what it logs, raises and answers,
\* and the call it makes to the registry
handle_call_tool(keys, cmds, bin, name, arguments, proc, t) ==
    LET api_key == DictGet(arguments, "api_key", PyNone)
        client_ip == DictGet(arguments, "client_ip", PyStr(<<"unknown">>))
        auth_status == get_http_status_code(keys, api_key)
        logged == log_auth_attempt(OrEmpty(api_key), auth_status = 200, client_ip)
        command_name == StripPrefix(name)
        command_args == CommandArgs(arguments)
        d == registry_execute_command(cmds, bin, command_name, command_args, proc, t)
        answer == [name |-> name, arguments |-> arguments, auth_status |-> auth_status,
                   log |-> logged.line, raised |-> logged.raised, error_code |-> "",
                   invoked |-> FALSE, command_name |-> "", command_args |-> EmptyDict,
                   result |-> NoResult]
    IN  IF logged.raised # "" THEN answer
        ELSE IF auth_status = 401 THEN [answer EXCEPT !.error_code = "UNAUTHORIZED"]
        ELSE IF auth_status = 403 THEN [answer EXCEPT !.error_code = "FORBIDDEN"]
        ELSE IF ~StartsWithPrefix(name) THEN [answer EXCEPT !.error_code = "INVALID_TOOL"]
        ELSE [answer EXCEPT !.invoked = TRUE, !.command_name = command_name,
                            !.command_args = command_args,
                            !.error_code = IF d.raised # "" THEN "EXECUTION_ERROR" ELSE "",
                            !.result = d.result]

KeyLong == <<"t", "e", "s", "t", "-", "k", "e", "y", "-", "1", "2", "3", "4", "5", "6">>
KeyShort == <<"s", "h", "o", "r", "t">>
KeyOther == <<"i", "n", "v", "a", "l", "i", "d", "-", "k", "e", "y">>

\* the api_keys lists of the configurations
ConfigKeyLists ==
    {<<>>, <<KeyLong>>, <<KeyShort>>, <<KeyLong, KeyShort>>, <<(<<>>), KeyShort>>}

\* the values a caller supplies as api_key
ApiKeyValues ==
    {PyNone, PyStr(<<>>), PyStr(KeyLong), PyStr(KeyShort), PyStr(KeyOther),
     PyInt(<<"1", "2", "3">>), PyInt(<<"0">>)}

ToolNames ==
    {<<"cassandra_", "status">>, <<"cassandra_", "dangerous_command">>,
     <<"cassandra_">>, <<"invalid_tool">>, <<>>}

\* the arguments of a tool call: api_key and client_ip may be absent
MakeToolArgs(k, ip, h) ==
    LET dom == (IF k.present THEN {"api_key"} ELSE {})
               \cup (IF ip.present THEN {"client_ip"} ELSE {})
               \cup (IF h.present THEN {"target_host"} ELSE {})
    IN  [x \in dom |->
            CASE x = "api_key" -> k.v
              [] x = "client_ip" -> ip.v
              [] OTHER -> h.v]

ToolArgDicts ==
    {MakeToolArgs(k, ip, h) :
        k \in {Absent} \cup {Present(v) : v \in ApiKeyValues},
        ip \in {Absent, Present(PyStr(ValidHost))},
        h \in {Absent, Present(PyStr(ValidHost))}}

\* the process behaviours a tool call meets
ToolProcessBehaviours == {"exit0", "FileNotFoundError"}

\* no call of the authentication manager or of the MCP server is pending
ServerReady == mcp_call = NoMcpCall /\ call = NoCall

\* auth_manager.load_api_keys()
LoadApiKeys ==
    LET loaded == _load_api_keys_from_config(auth.config_api_keys)
    IN  /\ ServerReady
        /\ auth' = [auth EXCEPT !._api_keys = loaded._api_keys, !.log = loaded.log]
        /\ call' = [fn |-> "load_api_keys", arg |-> <<>>, ret |-> loaded._api_keys]
        /\ mcp_call' = NoMcpCall
        /\ UNCHANGED <<registryVars, appVars, executorVars>>

\* auth_manager.reload_api_keys(config)
ReloadApiKeys(config_api_keys) ==
    /\ ServerReady
    /\ auth' = reload_api_keys(auth, config_api_keys)
    /\ call' = [fn |-> "reload_api_keys", arg |-> config_api_keys, ret |-> <<>>]
    /\ mcp_call' = NoMcpCall
    /\ UNCHANGED <<registryVars, appVars, executorVars>>

\* auth_manager.validate_api_key(api_key)
ValidateApiKey(api_key) ==
    /\ ServerReady
    /\ call' = [fn |-> "validate_api_key", arg |-> api_key,
                ret |-> validate_api_key(auth._api_keys, api_key)]
    /\ mcp_call' = NoMcpCall
    /\ UNCHANGED <<auth, registryVars, appVars, executorVars>>

\* await mcp_server.handle_call_tool(name, arguments)
HandleCallTool(name, arguments, proc, t) ==
    /\ ServerReady
    /\ mcp_call' = handle_call_tool(auth._api_keys, commands, cassandra_bin_path,
                                    name, arguments, proc, t)
    /\ call' = NoCall
    /\ UNCHANGED <<auth, registryVars, appVars, executorVars>>

\* the caller takes what the call returned or raised
ServerReturn ==
    /\ ~ServerReady
    /\ mcp_call' = NoMcpCall
    /\ call' = NoCall
    /\ UNCHANGED <<auth, registryVars, appVars, executorVars>>

InitServer ==
    /\ RegistryIdle
    /\ ExecutorIdle
    /\ AppIdle
    /\ auth \in {AuthenticationManager(config_api_keys) : config_api_keys \in ConfigKeyLists}
    /\ mcp_call = NoMcpCall
    /\ call = NoCall

NextServer ==
    \/ LoadApiKeys
    \/ \E config_api_keys \in ConfigKeyLists : ReloadApiKeys(config_api_keys)
    \/ \E api_key \in ApiKeyValues : ValidateApiKey(api_key)
    \/ \E name \in ToolNames, arguments \in ToolArgDicts,
          proc \in ToolProcessBehaviours, t \in ElapsedTimes :
          HandleCallTool(name, arguments, proc, t)
    \/ ServerReturn

SpecServer == InitServer /\ [][NextServer]_vars

----------------------------------------------------------------------------
(* log_auth_attempt applied to one key *)

MaxShortKey == 3
KeyAlphabet == {"a", "*", "."}

\* every key of at most MaxShortKey characters, keys of 8 and 9 characters,
\* and keys of 9 to 11 characters that begin with abcd and end with wxyz
MaskKeys ==
    UNION {[1..n -> KeyAlphabet] : n \in 0..MaxShortKey}
    \cup {KeyLong, KeyShort, <<"s", "e", "c", "r", "e", "t", "1", "2">>, <<"s", "e", "c", "r", "e", "t", "1", "2", "3">>}
    \cup {<<"a", "b", "c", "d">> \o mid \o <<"w", "x", "y", "z">> :
            mid \in UNION {[1..n -> {".", "x"}] : n \in 1..3}}

\* auth_manager.log_auth_attempt(api_key, success, ip)
LogAuthAttempt(success) ==
    /\ call.fn = ""
    /\ call' = [fn |-> "log_auth_attempt", arg |-> call.arg,
                ret |-> log_auth_attempt(call.arg, success, PyStr(ValidHost)).line]
    /\ UNCHANGED <<registryVars, appVars, executorVars, serverVars>>

InitMask ==
    /\ RegistryIdle
    /\ ExecutorIdle
    /\ AppIdle
    /\ ServerIdle
    /\ call \in {[fn |-> "", arg |-> PyStr(k), ret |-> NoLine] : k \in MaskKeys}

NextMask == \E success \in BOOLEAN : LogAuthAttempt(success)

SpecMask == InitMask /\ [][NextMask]_vars

----------------------------------------------------------------------------
(* Parsing of `nodetool status` output *)

\* str.isspace() of one character
IsSpace(ch) == ch \in {" ", "\t", "\n", "\r"}

\* s.strip()
strip(s) ==
    LET keep == {i \in 1..Len(s) : ~IsSpace(s[i])}
    IN  IF keep = {} THEN <<>>
        ELSE SubSeq(s, CHOOSE i \in keep : \A j \in keep : i <= j,
                       CHOOSE i \in keep : \A j \in keep : i >= j)

\* s.split(): the maximal runs of characters that are not whitespace
RECURSIVE SplitWhitespaceFrom(_, _, _)
SplitWhitespaceFrom(s, i, cur) ==
    LET done == IF cur = <<>> THEN <<>> ELSE <<cur>>
    IN  IF i > Len(s) THEN done
        ELSE IF IsSpace(s[i]) THEN done \o SplitWhitespaceFrom(s, i + 1, <<>>)
        ELSE SplitWhitespaceFrom(s, i + 1, Append(cur, s[i]))

SplitWhitespace(s) == SplitWhitespaceFrom(s, 1, <<>>)

\* s.startswith(prefix)
startswith(s, prefix) ==
    Len(s) >= Len(prefix) /\ SubSeq(s, 1, Len(prefix)) = prefix

DatacenterPrefix == <<"D", "a", "t", "a", "c", "e", "n", "t", "e", "r", ":">>

\* s.split(':', 1)[1] of a string that holds a colon: what follows the first
AfterFirstColon(s) ==
    LET first == CHOOSE i \in 1..Len(s) :
                    s[i] = ":" /\ \A j \in 1..(i - 1) : s[j] # ":"
    IN  SubSeq(s, first + 1, Len(s))

\* line[0] in ['U', 'D', 'N']
NodeLetters == {"U", "D", "N"}

\* the dict NodeToolExecutor._parse_status_output appends for one node line
StatusNodeDict(parts, datacenter) ==
    [status     |-> <<parts[1][1]>>,
     state      |-> IF Len(parts[1]) > 1 THEN <<parts[1][2]>> ELSE <<>>,
     address    |-> parts[2],
     load       |-> parts[3],
     tokens     |-> parts[4],
     owns       |-> parts[5],
     host_id    |-> parts[6],
     rack       |-> IF Len(parts) > 6 THEN PyStr(parts[7]) ELSE PyStr(<<>>),
     datacenter |-> datacenter]

\* the NodeStatus HealthCheck._parse_status_output appends for one node line
NodeStatus(parts, current_datacenter) ==
    [address    |-> parts[2],
     status     |-> <<parts[1][1]>>,
     state      |-> IF Len(parts[1]) > 1 THEN <<parts[1][2]>> ELSE <<"?">>,
     load       |-> parts[3],
     datacenter |-> current_datacenter,
     rack       |-> IF Len(parts) > 6 THEN PyStr(parts[Len(parts)]) ELSE PyNone]

\* the loop over the lines, shared by the two parsers, which differ by the
\* record they build: kind is "dict" or "NodeStatus"
RECURSIVE StatusLoop(_, _, _, _)
StatusLoop(kind, lines, i, datacenter) ==
    IF i > Len(lines) THEN <<>>
    ELSE LET line == strip(lines[i])
             parts == SplitWhitespace(line)
         IN  IF startswith(line, DatacenterPrefix)
             THEN StatusLoop(kind, lines, i + 1, PyStr(strip(AfterFirstColon(line))))
             ELSE IF line # <<>> /\ line[1] \in NodeLetters /\ Len(parts) >= 6
             THEN <<IF kind = "dict" THEN StatusNodeDict(parts, datacenter)
                                     ELSE NodeStatus(parts, datacenter)>>
                  \o StatusLoop(kind, lines, i + 1, datacenter)
             ELSE StatusLoop(kind, lines, i + 1, datacenter)

\* NodeToolExecutor._parse_status_output(output)
_parse_status_output(output) ==
    LET nodes == StatusLoop("dict", Split(strip(output), "\n"), 1, PyNone)
    IN  [nodes |-> nodes, total_nodes |-> Len(nodes)]

\* HealthCheck._parse_status_output(output)
HealthCheck_parse_status_output(output) ==
    StatusLoop("NodeStatus", Split(strip(output), "\n"), 1, PyNone)

\* the tokens joined by single spaces
RECURSIVE Spaced(_)
Spaced(tokens) ==
    IF tokens = <<>> THEN <<>>
    ELSE IF Len(tokens) = 1 THEN tokens[1]
    ELSE tokens[1] \o <<" ">> \o Spaced(Tail(tokens))

\* the lines joined by newlines
RECURSIVE JoinLines(_)
JoinLines(lines) ==
    IF lines = <<>> THEN <<>>
    ELSE IF Len(lines) = 1 THEN lines[1]
    ELSE lines[1] \o <<"\n">> \o JoinLines(Tail(lines))

\* lines of status output: a datacenter line, node lines of 8 tokens (a load
\* with its unit), 7, 6 and 5 tokens, an indented node line, a node line whose
\* first token has one character, the note nodetool prints under the table,
\* the table header, a datacenter line of 6 tokens, and an empty line
StatusLines ==
    {DatacenterPrefix \o <<" ", "x">>,
     Spaced(<<<<"U", "N">>, <<"a">>, <<"9">>, <<"K">>, <<"2">>, <<"%">>, <<"h">>, <<"r">>>>),
     Spaced(<<<<"D", "N">>, <<"b">>, <<"9">>, <<"2">>, <<"%">>, <<"h">>, <<"r">>>>),
     Spaced(<<<<"U", "L">>, <<"c">>, <<"9">>, <<"2">>, <<"%">>, <<"h">>>>),
     Spaced(<<<<"U", "J">>, <<"d">>, <<"9">>, <<"2">>, <<"%">>>>),
     <<" ", " ">> \o Spaced(<<<<"U", "M">>, <<"e">>, <<"9">>, <<"2">>, <<"%">>, <<"h">>, <<"r">>>>) \o <<" ">>,
     Spaced(<<<<"U">>, <<"f">>, <<"9">>, <<"2">>, <<"%">>, <<"h">>, <<"r">>>>),
     Spaced(<<<<"N", "o", "t", "e", ":">>, <<"n">>, <<"o">>, <<"t">>, <<"e">>, <<"s">>>>),
     Spaced(<<<<"-", "-">>, <<"A">>, <<"L">>, <<"T">>, <<"O">>, <<"H">>, <<"R">>>>),
     DatacenterPrefix \o Spaced(<<<<>>, <<"y">>, <<"1">>, <<"2">>, <<"3">>, <<"4">>>>),
     <<>>}

MaxStatusLines == 2

StatusTexts ==
    {JoinLines(ls) : ls \in UNION {[1..n -> StatusLines] : n \in 0..MaxStatusLines}}

\* executor.parse_output("status", stdout, stderr)
ParseStatusOutput ==
    /\ call.fn = ""
    /\ call' = [fn |-> "NodeToolExecutor._parse_status_output", arg |-> call.arg,
                ret |-> _parse_status_output(call.arg).nodes]
    /\ UNCHANGED <<registryVars, appVars, executorVars, serverVars>>

\* the parse of HealthCheck._get_cluster_status
HealthParseStatusOutput ==
    /\ call.fn = ""
    /\ call' = [fn |-> "HealthCheck._parse_status_output", arg |-> call.arg,
                ret |-> HealthCheck_parse_status_output(call.arg)]
    /\ UNCHANGED <<registryVars, appVars, executorVars, serverVars>>

InitParse ==
    /\ RegistryIdle
    /\ ExecutorIdle
    /\ AppIdle
    /\ ServerIdle
    /\ call \in {[fn |-> "", arg |-> text, ret |-> <<>>] : text \in StatusTexts}

NextParse ==
    \/ ParseStatusOutput
    \/ HealthParseStatusOutput

SpecParse == InitParse /\ [][NextParse]_vars

----------------------------------------------------------------------------
(* _validate_ip_format applied to one candidate *)

\* the parts joined by sep
RECURSIVE JoinWith(_, _)
JoinWith(parts, sep) ==
    IF parts = <<>> THEN <<>>
    ELSE IF Len(parts) = 1 THEN parts[1]
    ELSE parts[1] \o sep \o JoinWith(Tail(parts), sep)

\* n groups, all equal to base but the p-th, which is g
OneGroupChanged(n, base, p, g) == [i \in 1..n |-> IF i = p THEN g ELSE base]

\* what may follow or precede a candidate
Endings == {<<>>, <<"\n">>, <<"\n", "\n">>, <<" ">>}
Beginnings == {<<>>, <<" ">>}

MaxIPv4Groups == 5
IPv4Groups ==
    {<<>>, <<"7">>, <<"0", "0", "7">>, <<"2", "5", "5">>, <<"2", "5", "6">>,
     <<"1", "2", "3", "4">>, <<"x">>, <<"U+0663">>}

MaxIPv6Groups == 9
IPv6Groups ==
    {<<>>, <<"1">>, <<"f", "F", "0", "9">>, <<"1", "2", "3", "4", "5">>, <<"g">>}

IpCandidates ==
    {b \o JoinWith(OneGroupChanged(n, <<"7">>, p, g), <<".">>) \o e :
        n \in 1..MaxIPv4Groups, p \in 1..MaxIPv4Groups, g \in IPv4Groups,
        b \in Beginnings, e \in Endings}
    \cup
    {b \o JoinWith(OneGroupChanged(n, <<"1">>, p, g), <<":">>) \o e :
        n \in 1..MaxIPv6Groups, p \in 1..MaxIPv6Groups, g \in IPv6Groups,
        b \in Beginnings, e \in Endings}

\* self._validate_ip_format(ip)
ValidateIpFormat ==
    /\ call.fn = ""
    /\ call' = [fn |-> "_validate_ip_format", arg |-> call.arg,
                ret |-> _validate_ip_format(call.arg)]
    /\ UNCHANGED <<registryVars, appVars, executorVars, serverVars>>

InitIp ==
    /\ RegistryIdle
    /\ ExecutorIdle
    /\ AppIdle
    /\ ServerIdle
    /\ call \in {[fn |-> "", arg |-> ip, ret |-> FALSE] : ip \in IpCandidates}

NextIp == ValidateIpFormat

SpecIp == InitIp /\ [][NextIp]_vars

----------------------------------------------------------------------------
(* HealthCheck.check_health over the outcomes of the status commands *)

\* what `await asyncio.wait_for(self.executor.execute_command("status"), 10.0)`
\* gives: a CommandResult, an exception of the executor, or the TimeoutError
\* of wait_for
ProbeOutcomes ==
    {[kind |-> "result", success |-> TRUE, stdout |-> <<>>],
     [kind |-> "result", success |-> FALSE, stdout |-> <<>>],
     [kind |-> "raises", success |-> FALSE, stdout |-> <<>>],
     [kind |-> "timeout", success |-> FALSE, stdout |-> <<>>]}

\* what `await self.executor.execute_command("status")` gives in
\* _get_cluster_status
StatusCommandOutcomes ==
    {[kind |-> "result", success |-> TRUE, stdout |-> text] : text \in StatusTexts}
    \cup {[kind |-> "result", success |-> FALSE, stdout |-> <<>>],
          [kind |-> "raises", success |-> FALSE, stdout |-> <<>>]}

\* every outcome counts as reachable
check_cassandra_connectivity_Always(probe) == TRUE

\* lines 86-110: True for a result with success, False for a result without,
\* for TimeoutError and for any other exception
check_cassandra_connectivity(probe) ==
    probe.kind = "result" /\ probe.success

\* sum(1 for node in nodes if node.status == letter)
CountStatus(nodes, letter) ==
    Cardinality({k \in 1..Len(nodes) : nodes[k].status = <<letter>>})

\* lines 118-140: (nodes, node_count, up_nodes, down_nodes)
_get_cluster_status(status_cmd) ==
    IF status_cmd.kind = "raises" \/ ~status_cmd.success
    THEN [nodes |-> <<>>, node_count |-> 0, up_nodes |-> 0, down_nodes |-> 0]
    ELSE LET nodes == HealthCheck_parse_status_output(status_cmd.stdout)
         IN  [nodes |-> nodes, node_count |-> Len(nodes),
              up_nodes |-> CountStatus(nodes, "U"),
              down_nodes |-> CountStatus(nodes, "D")]

\* HealthCheckResult, with the number of status commands that were issued
HealthCheckResult(status, cassandra_reachable, cluster, error_message, issued) ==
    [status |-> status, cassandra_reachable |-> cassandra_reachable,
     node_count |-> cluster.node_count, up_nodes |-> cluster.up_nodes,
     down_nodes |-> cluster.down_nodes, nodes |-> cluster.nodes,
     error_message |-> error_message, issued |-> issued]

NoCluster == [nodes |-> <<>>, node_count |-> 0, up_nodes |-> 0, down_nodes |-> 0]

\* lines 31-68. The handler of lines 70-78 is not entered: both callees catch
\* every Exception themselves.
check_health(probe, status_cmd) ==
    IF ~check_cassandra_connectivity(probe)
    THEN HealthCheckResult("unhealthy", FALSE, NoCluster,
                           "Cassandra cluster is not reachable", 1)
    ELSE LET cluster == _get_cluster_status(status_cmd)
             status == IF cluster.down_nodes = 0 THEN "healthy"
                       ELSE IF cluster.up_nodes > 0 THEN "degraded"
                       ELSE "unhealthy"
         IN  HealthCheckResult(status, TRUE, cluster, "", 2)

\* await health_check.check_health()
CheckHealth ==
    /\ call.fn = ""
    /\ call' = [fn |-> "check_health", arg |-> call.arg,
                ret |-> check_health(call.arg.probe, call.arg.status_cmd)]
    /\ UNCHANGED <<registryVars, appVars, executorVars, serverVars>>

InitHealth ==
    /\ RegistryIdle
    /\ ExecutorIdle
    /\ AppIdle
    /\ ServerIdle
    /\ call \in {[fn |-> "", arg |-> [probe |-> p, status_cmd |-> s], ret |-> <<>>] :
                    p \in ProbeOutcomes, s \in StatusCommandOutcomes}

NextHealth == CheckHealth

SpecHealth == InitHealth /\ [][NextHealth]_vars

----------------------------------------------------------------------------
(* Application: run(), the signal handlers and shutdown() *)

MaxRuns == 3
MaxConsecutive == 3
Signals == {"SIGINT", "SIGTERM"}

\* what ends `await self.mcp_server.run()`
ServerEndings == {"returned", "CancelledError", "Exception"}

\* the record of the last operation on the application
LastOp(a, op, ran_steps) ==
    [op |-> op, was_running |-> a._running, ran_steps |-> ran_steps,
     consecutive |-> IF op = "shutdown" /\ a.last.op = "shutdown"
                     THEN a.last.consecutive + 1
                     ELSE IF op = "shutdown" THEN 1 ELSE 0]

\* a shutdown that runs its steps at every call
shutdown_NoGuard(a) ==
    [a EXCEPT !._running = FALSE,
              !.shutdown_steps = @ + 1,
              !.last = LastOp(a, "shutdown", TRUE)]

\* Application.shutdown, lines 143-185; it has no await, so it runs as one step
shutdown(a) ==
    IF ~a._running
    THEN [a EXCEPT !.last = LastOp(a, "shutdown", FALSE)]
    ELSE [a EXCEPT !._running = FALSE,
                   !.shutdown_steps = @ + 1,
                   !.last = LastOp(a, "shutdown", TRUE)]

\* Application.run, lines 105-117, up to `await self.mcp_server.run()`;
\* a failed initialize() ends the process with sys.exit(1)
AppRun(initialized) ==
    /\ app.pc \in {"new", "returned"}
    /\ app.runs < MaxRuns
    /\ app' = IF ~initialized
              THEN [app EXCEPT !.pc = "exited", !.last = LastOp(app, "run", FALSE)]
              ELSE [app EXCEPT !.handlers = TRUE,
                               !._running = TRUE,
                               !.runs = @ + 1,
                               !.pc = "serving",
                               !.last = LastOp(app, "run", FALSE)]
    /\ UNCHANGED <<registryVars, executorVars, serverVars, call, config_manager>>

\* signal_handler(signum, frame), lines 129-134, once the handlers are registered
SignalHandler(sig) ==
    /\ app.handlers
    /\ app.pc # "exited"
    /\ app' = [app EXCEPT !.shutdown_event = TRUE,
                          !.last = LastOp(app, sig, FALSE)]
    /\ UNCHANGED <<registryVars, executorVars, serverVars, call, config_manager>>

\* `await self.mcp_server.run()` returns or raises, lines 118-121: the client
\* closed the stream, the task was cancelled, or the server failed
ServerEnds(how) ==
    /\ app.pc = "serving"
    /\ app' = [app EXCEPT !.pc = "finally", !.last = LastOp(app, how, FALSE)]
    /\ UNCHANGED <<registryVars, executorVars, serverVars, call, config_manager>>

\* the finally clause of run, lines 122-123: await self.shutdown()
RunFinally ==
    /\ app.pc = "finally"
    /\ app' = [shutdown(app) EXCEPT !.pc = "returned"]
    /\ UNCHANGED <<registryVars, executorVars, serverVars, call, config_manager>>

\* `await app.shutdown()` called by another holder of the application
Shutdown ==
    /\ app.pc # "exited"
    /\ app.last.consecutive < MaxConsecutive
    /\ app' = shutdown(app)
    /\ UNCHANGED <<registryVars, executorVars, serverVars, call, config_manager>>

InitApp ==
    /\ RegistryIdle
    /\ ExecutorIdle
    /\ ServerIdle
    /\ app = NoApp
    /\ config_manager = NoConfigManager
    /\ call = NoCall

NextApp ==
    \/ \E initialized \in BOOLEAN : AppRun(initialized)
    \/ \E sig \in Signals : SignalHandler(sig)
    \/ \E how \in ServerEndings : ServerEnds(how)
    \/ RunFinally
    \/ Shutdown

SpecApp == InitApp /\ [][NextApp]_vars

\* the event loop resumes run() once the server has ended; nothing in the
\* code makes the server end
FairnessApp == WF_vars(RunFinally)

SpecAppFair == InitApp /\ [][NextApp]_vars /\ FairnessApp

----------------------------------------------------------------------------
(* ConfigurationManager: load_config and reload_config *)

\* Config(): the defaults of the model class
DefaultJavaHome == <<"opt", "jdk">>
DefaultConfig ==
    [is_none |-> FALSE, java_home |-> DefaultJavaHome,
     cassandra_bin_path |-> DefaultBinPath, api_keys |-> <<>>]

\* the paths that exist on the machine
ExistingPaths == {<<"custom", "jdk">>, <<"opt", "cassandra", "bin">>, DefaultBinPath}

JavaHomes == {<<"custom", "jdk">>, <<"missing", "jdk">>}
ConfiguredBinPaths == {<<"opt", "cassandra", "bin">>, <<"missing", "bin">>}
ConfiguredKeyLists == {<<KeyShort>>, <<KeyLong, KeyShort>>}

\* the mappings a valid configuration file can hold: each key present or not
ConfigData ==
    {[k \in keys |-> full[k]] :
        keys \in SUBSET {"java_home", "cassandra_bin_path", "api_keys"},
        full \in [java_home : JavaHomes, cassandra_bin_path : ConfiguredBinPaths,
                  api_keys : ConfiguredKeyLists]}

\* the states of the configuration file: absent, not readable, not valid
\* YAML, valid YAML that is not a mapping, or a mapping
ConfigFiles ==
    {[kind |-> k, data |-> EmptyDict] :
        k \in {"missing", "unreadable", "invalid_yaml", "not_a_mapping"}}
    \cup {[kind |-> "mapping", data |-> d] : d \in ConfigData}

\* lines 68-85: a path that does not exist is replaced by the default
_validate_and_fallback(config) ==
    [config EXCEPT
        !.java_home = IF @ \in ExistingPaths THEN @ ELSE DefaultJavaHome,
        !.cassandra_bin_path = IF @ \in ExistingPaths THEN @ ELSE DefaultBinPath]

\* load_config, lines 26-66: the new value of self.config. Every failure is
\* handled inside and gives Config(); nothing is raised.
load_config(file) ==
    IF file.kind = "mapping"
    THEN _validate_and_fallback(
            [is_none |-> FALSE,
             java_home |-> DictGet(file.data, "java_home", DefaultJavaHome),
             cassandra_bin_path |-> DictGet(file.data, "cassandra_bin_path", DefaultBinPath),
             api_keys |-> DictGet(file.data, "api_keys", <<>>)])
    ELSE DefaultConfig

\* reload_config, lines 150-175: load_config raises nothing, so the handler
\* of lines 170-175, which would restore old_config, is never entered
reload_config(old_config, file) == load_config(file)

\* the file is created, edited, damaged or removed
WriteFile(file) ==
    /\ config_manager.last # ""
    /\ config_manager.file # file
    /\ config_manager' = [config_manager EXCEPT !.file = file, !.last = ""]
    /\ UNCHANGED <<registryVars, executorVars, serverVars, call, app>>

\* config_manager.load_config()
ManagerLoadConfig ==
    /\ config_manager.last = ""
    /\ config_manager' =
          [config_manager EXCEPT !.config = load_config(config_manager.file),
                                 !.old_config = config_manager.config,
                                 !.last = "load_config"]
    /\ UNCHANGED <<registryVars, executorVars, serverVars, call, app>>

\* config_manager.reload_config()
ManagerReloadConfig ==
    /\ config_manager.last = ""
    /\ config_manager' =
          [config_manager EXCEPT
              !.config = reload_config(config_manager.config, config_manager.file),
              !.old_config = config_manager.config,
              !.last = "reload_config"]
    /\ UNCHANGED <<registryVars, executorVars, serverVars, call, app>>

InitConfig ==
    /\ RegistryIdle
    /\ ExecutorIdle
    /\ ServerIdle
    /\ app = NoApp
    /\ config_manager \in {[NoConfigManager EXCEPT !.file = f] : f \in ConfigFiles}
    /\ call = NoCall

NextConfig ==
    \/ \E file \in ConfigFiles : WriteFile(file)
    \/ ManagerLoadConfig
    \/ ManagerReloadConfig

SpecConfig == InitConfig /\ [][NextConfig]_vars

----------------------------------------------------------------------------
(* Properties of the registry and the executor *)

IsDispatch == request.op = "execute_command"
HostOf(args) == DictGet(args, "target_host", PyNone)

\* C1: validate_command returns False for every command name that is not in
\* the catalog, and an execute_command whose validation fails returns
\* success=false, empty stdout and execution_time 0 and does not call the
\* executor (so no process is spawned).
C1_UnknownShortCircuits ==
    /\ \A n \in Names \ DOMAIN commands : \A a \in ArgDicts :
          ~validate_command(commands, n, a)
    /\ (request.op \in {"validate_command", "execute_command"}
        /\ request.name \notin DOMAIN commands) => ~outcome.valid
    /\ (IsDispatch /\ ~outcome.valid) =>
          /\ outcome.returned /\ outcome.raised = ""
          /\ ~outcome.result.success
          /\ outcome.result.stdout = <<>>
          /\ outcome.result.execution_time = 0
          /\ ~outcome.invoked
          /\ ~outcome.spawned

C1_Witness ==
    /\ IsDispatch
    /\ request.name \notin DOMAIN commands
    /\ ~outcome.valid
    /\ outcome.returned

\* C2: whatever registrations came before, every command name the registry
\* passes to the executor is in SAFE_COMMANDS and its catalog entry is marked
\* safe at the moment of the call (a dispatch leaves the catalog as it is).
C2_OnlySafeCommandsExecuted ==
    outcome.invoked =>
        /\ outcome.invocation.command = request.name
        /\ outcome.invocation.command \in SAFE_COMMANDS
        /\ outcome.invocation.command \in DOMAIN commands
        /\ DictGet(commands[outcome.invocation.command], "safe", FALSE)

C2_Witness ==
    /\ outcome.invoked
    /\ commands # _initialize_commands
    /\ \E n \in DOMAIN commands : ~DictGet(commands[n], "safe", FALSE)

\* every required argument of the entry is a key of args with a non-empty value
AllRequiredPresent(meta, args) ==
    LET required == DictGet(meta, "required_args", <<>>)
    IN  \A i \in 1..Len(required) :
            required[i] \in DOMAIN args /\ Truthy(args[required[i]])

\* the executor is stubbed to succeed: the call made to it, if any, returned
\* success
StubbedExecutorSucceeds ==
    outcome.invoked => (outcome.returned /\ outcome.result.success)

\* the process, if one was asked for, exited with code 0
StubbedExitZero == outcome.proc \in {"", "exit0"}

RequiresArgsDispatch ==
    /\ IsDispatch
    /\ request.name \in DOMAIN commands
    /\ DictGet(commands[request.name], "requires_args", FALSE)

\* C3 as stated: for a catalog command whose requires_args is true,
\* execute_command fails when a required argument is missing or empty and
\* succeeds (executor stubbed to succeed) when all of them are present and
\* non-empty.
C3_Original ==
    (RequiresArgsDispatch /\ StubbedExecutorSucceeds) =>
        (outcome.result.success <=> AllRequiredPresent(commands[request.name], request.args))

\* target_host is absent, falsy, or a string in a valid IP format
HostAcceptable(args) ==
    \/ ~Truthy(HostOf(args))
    \/ IsInstanceStr(HostOf(args)) /\ _validate_ip_format(HostOf(args).val)

\* C3 amended: with a required argument missing or empty execute_command
\* returns success=false; with all of them present and non-empty it returns
\* success=true (executor stubbed to succeed) provided the entry is marked
\* safe and target_host is absent, falsy or a string.  With the executor
\* itself and a process that exits with code 0 the same holds for a
\* target_host that is absent, falsy or a string in a valid IP format.
C3_RequiredArgs ==
    RequiresArgsDispatch =>
        LET meta == commands[request.name]
            host == HostOf(request.args)
        IN  /\ ~AllRequiredPresent(meta, request.args) =>
                  outcome.returned /\ ~outcome.result.success /\ ~outcome.invoked
            /\ (/\ AllRequiredPresent(meta, request.args)
                /\ DictGet(meta, "safe", FALSE)
                /\ (IsInstanceStr(host) \/ ~Truthy(host))
                /\ StubbedExecutorSucceeds) =>
                  outcome.invoked /\ outcome.returned /\ outcome.result.success
            /\ (/\ AllRequiredPresent(meta, request.args)
                /\ DictGet(meta, "safe", FALSE)
                /\ HostAcceptable(request.args)
                /\ StubbedExitZero) =>
                  outcome.returned /\ outcome.result.success /\ outcome.proc = "exit0"

C3_Witness ==
    /\ RequiresArgsDispatch
    /\ request.name = "getsstables"
    /\ AllRequiredPresent(commands[request.name], request.args)
    /\ HostOf(request.args) = PyStr(ValidHost)
    /\ outcome.result.success

\* C4 as stated: a request whose args hold a target_host that is not a string
\* fails validate_command and never reaches the executor.
C4_Original ==
    (/\ request.op \in {"validate_command", "execute_command"}
     /\ "target_host" \in DOMAIN request.args
     /\ ~IsInstanceStr(request.args["target_host"])) =>
        ~outcome.valid /\ ~outcome.invoked

\* C4 amended: a request whose args hold a truthy target_host (not None, 0 or
\* another falsy value) that is not a string fails validate_command and never
\* reaches the executor; a falsy target_host is treated as no host.
C4_NonStringHostRejected ==
    (/\ request.op \in {"validate_command", "execute_command"}
     /\ "target_host" \in DOMAIN request.args
     /\ Truthy(request.args["target_host"])
     /\ ~IsInstanceStr(request.args["target_host"])) =>
        ~outcome.valid /\ ~outcome.invoked /\ outcome.raised = ""

C4_Witness ==
    /\ IsDispatch
    /\ request.name = "status"
    /\ HostOf(request.args) = PyInt(<<"1", "2", "3">>)
    /\ ~outcome.valid
    /\ ~outcome.invoked

\* the validation step a logged error names
ValidationStep(log) == log[1]

\* the stderr a dispatch of (n, a) gets in the current state
StderrOf(n, a) ==
    registry_execute_command(commands, cassandra_bin_path, n, a, "exit0", 0).result.stderr

\* C5 as stated: the stderr of a validation failure tells which step failed:
\* failures at different steps (unknown command, unsafe command, missing
\* required argument, wrong target_host type) carry different messages.
C5_Original ==
    (IsDispatch /\ ~outcome.valid) =>
        \A n \in Names : \A a \in ArgDicts :
            (/\ ~validate_command(commands, n, a)
             /\ ValidationStep(validate(commands, n, a).log) # ValidationStep(outcome.log))
            => StderrOf(n, a) # outcome.result.stderr

\* C5 amended: the stderr of a validation failure is "Command validation
\* failed for '<name>'" whatever step failed: it names the command, and the
\* step is told only by the error validate_command logs.
C5_GenericValidationMessage ==
    (IsDispatch /\ ~outcome.valid) =>
        /\ outcome.result.stderr = <<"Command validation failed for '", request.name, "'">>
        /\ outcome.log # NoLog
        /\ ValidationStep(outcome.log) \in
              {"Unknown command: ", "Unsafe command: ", "Missing required argument '",
               "Invalid target_host type for command '"}
        /\ \A a \in ArgDicts :
              ~validate_command(commands, request.name, a)
              => StderrOf(request.name, a) = outcome.result.stderr

C5_Witness ==
    /\ IsDispatch
    /\ ~outcome.valid
    /\ ValidationStep(outcome.log) = "Missing required argument '"
    /\ \E a \in ArgDicts :
          /\ ~validate_command(commands, request.name, a)
          /\ ValidationStep(validate(commands, request.name, a).log)
                = "Invalid target_host type for command '"

\* C6: register_command raises ValueError for every name outside
\* SAFE_COMMANDS and for every handler that is not a dict, and a registration
\* that raises leaves the catalog exactly as it was.
C6_RejectedRegistrationKeepsCatalog ==
    [][(request'.op = "register_command" /\ request.op = "none") =>
          /\ (request'.name \notin SAFE_COMMANDS \/ request'.handler.type # "dict")
                => outcome'.raised = "ValueError"
          /\ outcome'.raised = "ValueError" => commands' = commands]_vars

C6_Witness ==
    /\ request.op = "register_command"
    /\ request.name \notin SAFE_COMMANDS
    /\ request.handler.type = "dict"
    /\ outcome.raised = "ValueError"
    /\ commands # _initialize_commands

\* the fields of a catalog entry the claim names
Meta(h) ==
    [category |-> DictGet(h, "category", ""),
     requires_args |-> DictGet(h, "requires_args", FALSE),
     required_args |-> DictGet(h, "required_args", <<>>),
     optional_args |-> DictGet(h, "optional_args", <<>>),
     safe |-> DictGet(h, "safe", FALSE)]

\* C7 as stated: no sequence of public operations changes the category,
\* requires_args, required or optional argument names or safe flag of any of
\* the 11 commands.
C7_Original ==
    /\ DOMAIN commands = SAFE_COMMANDS
    /\ \A n \in SAFE_COMMANDS : Meta(commands[n]) = Meta(_initialize_commands[n])

\* C7 amended: the catalog always holds exactly the 11 commands, and an entry
\* changes only by an accepted register_command (name in SAFE_COMMANDS,
\* handler a dict), which replaces that entry by the handler and leaves the
\* other entries as they were; validate_command, execute_command and a
\* rejected register_command change nothing.
C7_CatalogChangesOnlyByRegistration ==
    [][/\ DOMAIN commands' = SAFE_COMMANDS
       /\ commands' # commands =>
            /\ request'.op = "register_command"
            /\ outcome'.raised = ""
            /\ request'.name \in SAFE_COMMANDS
            /\ request'.handler.type = "dict"
            /\ commands' = [commands EXCEPT ![request'.name] = request'.handler.val]]_vars

C7_Witness ==
    /\ request.op = "register_command"
    /\ outcome.raised = ""
    /\ Meta(commands[request.name]) # Meta(_initialize_commands[request.name])
    /\ \E n \in SAFE_COMMANDS \ {request.name} :
          Meta(commands[n]) # Meta(_initialize_commands[n])

\* C8 as stated: a call of the executor with a target_host other than None
\* that _validate_ip_format rejects returns success=false with stderr
\* "Invalid IP format: <target_host>" and spawns no process.
C8_Original ==
    (/\ outcome.invoked
     /\ IsInstanceStr(outcome.invocation.target_host)
     /\ ~_validate_ip_format(outcome.invocation.target_host.val)) =>
        /\ outcome.returned
        /\ ~outcome.result.success
        /\ outcome.result.stderr =
              <<"Invalid IP format: ">> \o outcome.invocation.target_host.val
        /\ ~outcome.spawned /\ outcome.proc = ""

\* C8 amended: a call of the executor with a non-empty target_host that
\* _validate_ip_format rejects returns success=false with stderr
\* "Invalid IP format: <target_host>" and spawns no process; an empty
\* target_host is treated as no host and is not validated.
C8_InvalidHostNeverSpawns ==
    (/\ outcome.invoked
     /\ IsInstanceStr(outcome.invocation.target_host)
     /\ outcome.invocation.target_host.val # <<>>
     /\ ~_validate_ip_format(outcome.invocation.target_host.val)) =>
        /\ outcome.returned
        /\ ~outcome.result.success
        /\ outcome.result.stderr =
              <<"Invalid IP format: ">> \o outcome.invocation.target_host.val
        /\ outcome.result.target_host = outcome.invocation.target_host
        /\ ~outcome.spawned /\ outcome.proc = ""

C8_Witness ==
    /\ outcome.invoked
    /\ outcome.invocation.target_host = PyStr(InvalidHost)
    /\ outcome.result.stderr = <<"Invalid IP format: ">> \o InvalidHost
    /\ ~outcome.spawned

\* C9: the argument vector of every spawned process is [nodetool path,
\* command] when no host is given (target_host None or empty) and
\* [nodetool path, "-h", target_host, command] when one is, the host option
\* before the command name.
C9_ArgumentVector ==
    outcome.spawned =>
        LET argv == outcome.argv
            host == outcome.invocation.target_host
            path == cassandra_bin_path \o <<"nodetool">>
        IN  IF host = PyNone \/ host.val = <<>> \/ ~Truthy(host)
            THEN /\ Len(argv) = 2
                 /\ argv[1] = path
                 /\ argv[2] = <<outcome.invocation.command>>
            ELSE /\ Len(argv) = 4
                 /\ argv[1] = path
                 /\ argv[2] = <<"-h">>
                 /\ argv[3] = host.val
                 /\ argv[4] = <<outcome.invocation.command>>

C9_Witness ==
    /\ outcome.spawned
    /\ outcome.invocation.target_host = PyStr(ValidHost)
    /\ Len(outcome.argv) = 4

\* the caller holds the result of a dispatch of the command and target_host
\* of the dispatch before, with other argument values
SameCommandAndHost ==
    /\ IsDispatch
    /\ prev.name = request.name
    /\ prev.target_host = HostOf(request.args)
    /\ prev.args # request.args

\* C10 as stated: two dispatches of the same command with the same
\* target_host and different values of the other arguments produce identical
\* executor invocations and identical argument vectors.
C10_Original ==
    SameCommandAndHost =>
        /\ outcome.invoked = prev.invoked
        /\ outcome.invocation = prev.invocation
        /\ outcome.spawned = prev.spawned
        /\ outcome.argv = prev.argv

\* C10 amended: two dispatches of the same command with the same target_host
\* and different values of the other arguments that both pass validation
\* produce identical executor invocations and, under the same configured
\* Cassandra bin path, identical argument vectors (the other argument values
\* decide only whether validation passes).
C10_OtherArgsNeverReachProcess ==
    (SameCommandAndHost /\ prev.invoked /\ outcome.invoked) =>
        /\ outcome.invocation = prev.invocation
        /\ outcome.invocation = [command |-> request.name,
                                 target_host |-> HostOf(request.args)]
        /\ (prev.spawned /\ outcome.spawned /\ prev.bin = cassandra_bin_path)
              => outcome.argv = prev.argv

C10_Witness ==
    /\ SameCommandAndHost
    /\ request.name = "getsstables"
    /\ prev.invoked /\ outcome.invoked
    /\ prev.spawned /\ outcome.spawned
    /\ prev.bin = cassandra_bin_path
    /\ "keyspace" \in DOMAIN prev.args /\ "keyspace" \in DOMAIN request.args
    /\ prev.args["keyspace"] # request.args["keyspace"]
    /\ prev.target_host = PyStr(ValidHost)

----------------------------------------------------------------------------
(* Properties of the executor's outcomes *)

\* the coroutine of c has returned a result built by the executor
ExecutorReturned(c) == tasks[c].pc = "done" /\ tasks[c].command # ""

\* a child process was spawned for c, communicate() completed before the timer
\* expired, and the process exited with code 0
CompletedWithZero(c) ==
    /\ process[c].state = "exited"
    /\ tasks[c].kill = ""
    /\ process[c].returncode = <<0>>

\* C11: in every result returned by NodeToolExecutor.execute_command, success
\* is true if and only if a child process was spawned, completed before the
\* timeout and exited with code 0; a timeout, a spawn error or an invalid host
\* always yields success=false.
C11_SuccessIffExitZero ==
    \A c \in Callers : ExecutorReturned(c) =>
        /\ tasks[c].result.success <=> CompletedWithZero(c)
        /\ tasks[c].kill # "" => ~tasks[c].result.success
        /\ process[c].state = "none" => ~tasks[c].result.success
        /\ HostRejected(tasks[c].target_host) => ~tasks[c].result.success

C11_Witness ==
    /\ ExecutorReturned("c1") /\ tasks["c1"].result.success
    /\ ExecutorReturned("c2") /\ tasks["c2"].kill = "sent"
    /\ ~tasks["c2"].result.success

\* C12: in every result with success=false returned by the dispatcher or the
\* executor, stderr is a non-empty cause, on every failure path: validation
\* failure, invalid host, timeout, spawn error and non-zero process exit.
C12_Original ==
    \A c \in Callers :
        (tasks[c].pc = "done" /\ ~tasks[c].result.success) => tasks[c].result.stderr # <<>>

\* the message of the timeout result
TimedOutMessage == <<"Command timed out after ", "300", " seconds">>

\* C13: if the child process has not completed when the timeout expires,
\* execute_command kills the process, waits for it to terminate, and only then
\* returns success=false, empty stdout and stderr 'Command timed out after
\* <timeout> seconds'; the process is terminated before the caller receives the
\* result.  (kill = "sent": the process was alive when kill() was called.)
C13_KilledBeforeReturn ==
    \A c \in Callers :
        /\ tasks[c].pc \in {"kill", "wait"} => tasks[c].result = NoResult
        /\ (tasks[c].pc = "done" /\ tasks[c].kill # "") =>
              /\ ~tasks[c].result.success
              /\ tasks[c].result.stdout = <<>>
              /\ tasks[c].result.stderr = TimedOutMessage
              /\ process[c].state \in {"exited", "killed"}
              /\ tasks[c].kill = "sent" => (tasks[c].waited /\ process[c].state = "killed")
              /\ tasks[c].kill = "nothing" => tasks[c].waited

C13_Witness ==
    \E c \in Callers :
        /\ tasks[c].pc = "done"
        /\ tasks[c].kill = "sent"
        /\ tasks[c].waited
        /\ process[c].state = "killed"
        /\ tasks[c].result.stderr = TimedOutMessage

C15_ResultEchoesOwnRequest ==
    \A c \in Callers : tasks[c].pc = "done" =>
        /\ tasks[c].result.command = tasks[c].name
        /\ tasks[c].result.target_host = HostOf(tasks[c].args)

C15_Witness ==
    /\ tasks["c1"].pc = "done"
    /\ process["c1"].state = "exited"
    /\ tasks["c1"].result.target_host = PyNone
    /\ tasks["c2"].pc = "communicate"
    /\ tasks["c2"].target_host = PyStr(ValidHost)

----------------------------------------------------------------------------
(* Properties of the MCP layer and of authentication *)

\* a handle_call_tool has been made, of which mcp_call is the record
ToolCalled == mcp_call.auth_status # 0

SuppliedKey == DictGet(mcp_call.arguments, "api_key", PyNone)

\* C16: handle_call_tool invokes the command registry only when the supplied
\* api_key is one of the currently loaded keys: a missing or empty key yields
\* an UNAUTHORIZED error response (401), a non-empty key not in the list yields
\* FORBIDDEN (403), and in both cases no command is validated or executed.
C16_Original ==
    ToolCalled =>
        /\ mcp_call.invoked => InKeyList(auth._api_keys, SuppliedKey)
        /\ ~Truthy(SuppliedKey) =>
              /\ mcp_call.error_code = "UNAUTHORIZED"
              /\ mcp_call.auth_status = 401
              /\ ~mcp_call.invoked
        /\ (Truthy(SuppliedKey) /\ ~InKeyList(auth._api_keys, SuppliedKey)) =>
              /\ mcp_call.error_code = "FORBIDDEN"
              /\ mcp_call.auth_status = 403
              /\ ~mcp_call.invoked

\* C17: authentication is decided before the tool name is examined: an
\* authenticated call whose tool name does not start with 'cassandra_' returns
\* INVALID_TOOL without invoking the registry, and an unauthenticated call
\* returns UNAUTHORIZED or FORBIDDEN whatever the tool name is.
C17_Original ==
    ToolCalled =>
        /\ (mcp_call.auth_status = 200 /\ ~StartsWithPrefix(mcp_call.name)) =>
              (mcp_call.error_code = "INVALID_TOOL" /\ ~mcp_call.invoked)
        /\ mcp_call.auth_status # 200 =>
              /\ mcp_call.error_code \in {"UNAUTHORIZED", "FORBIDDEN"}
              /\ mcp_call.raised = ""

\* C18: at every point in any sequence of construction, load_api_keys and
\* reload_api_keys, validate_api_key(k) is true if and only if k is non-empty
\* and belongs to the key list of the configuration most recently loaded; a
\* key removed by reload_api_keys is rejected by every later call.
C18_ValidIffLoaded ==
    /\ \A k \in ApiKeyValues :
          validate_api_key(auth._api_keys, k)
              <=> (Truthy(k) /\ InKeyList(auth.config_api_keys, k))
    /\ call.fn = "validate_api_key" =>
          (call.ret <=> (Truthy(call.arg) /\ InKeyList(auth.config_api_keys, call.arg)))

C18_Witness ==
    /\ auth.log = <<"API keys reloaded: ", "2", " -> ", "1">>
    /\ auth._api_keys = <<KeyShort>>
    /\ call.fn = "validate_api_key"
    /\ call.arg = PyStr(KeyLong)
    /\ ~call.ret

\* C19: log_auth_attempt never writes a complete API key to the log: for every
\* non-empty key, _mask_api_key returns a string different from the key,
\* showing only the first character for keys of at most 8 characters and only
\* the first 4 and last 4 characters for longer keys.
C19_Original ==
    (call.fn = "log_auth_attempt" /\ call.arg.val # <<>>) =>
        LET key == call.arg.val
            written == call.ret.api_key
        IN  /\ written # key
            /\ Len(key) <= 8 =>
                  /\ Len(written) = Len(key)
                  /\ written[1] = key[1]
                  /\ \A i \in 2..Len(key) : written[i] = "*"
            /\ Len(key) > 8 =>
                  written = SubSeq(key, 1, 4) \o <<".", ".", ".">>
                            \o SubSeq(key, Len(key) - 3, Len(key))

----------------------------------------------------------------------------
(* Properties of the status parsers *)

StatusParsers ==
    {"NodeToolExecutor._parse_status_output", "HealthCheck._parse_status_output"}

\* the lines of a status text, each without its surrounding whitespace
StatusLinesOf(text) ==
    LET raw == Split(strip(text), "\n")
    IN  [i \in 1..Len(raw) |-> strip(raw[i])]

IsDatacenterLine(line) == startswith(line, DatacenterPrefix)

\* a node line: first character U, D or N and at least 6 tokens
IsNodeLine(line) ==
    /\ ~IsDatacenterLine(line)
    /\ line # <<>>
    /\ line[1] \in NodeLetters
    /\ Len(SplitWhitespace(line)) >= 6

\* the index of the k-th node line
NodeLineIndex(lines, k) ==
    LET idx == {i \in 1..Len(lines) : IsNodeLine(lines[i])}
    IN  CHOOSE i \in idx : Cardinality({j \in idx : j <= i}) = k

\* the value of the most recent 'Datacenter:' line before line i, if any
DatacenterBefore(lines, i) ==
    LET ds == {j \in 1..(i - 1) : IsDatacenterLine(lines[j])}
    IN  IF ds = {} THEN PyNone
        ELSE PyStr(strip(AfterFirstColon(lines[CHOOSE j \in ds : \A d \in ds : d <= j])))

\* C20: for every node line of status output (first character U, D or N and at
\* least 6 whitespace-separated tokens) the status parser yields status =
\* first character of token 0, state = its second character, address = token
\* 1, load = token 2, datacenter = the value of the most recent preceding
\* 'Datacenter:' line, and rack = the last token of the line whenever the line
\* has more than 6 tokens; all other lines produce no node.
C20_Original ==
    call.fn \in StatusParsers =>
        LET lines == StatusLinesOf(call.arg)
            nodes == call.ret
        IN  /\ Len(nodes) = Cardinality({i \in 1..Len(lines) : IsNodeLine(lines[i])})
            /\ \A k \in 1..Len(nodes) :
                  LET i == NodeLineIndex(lines, k)
                      parts == SplitWhitespace(lines[i])
                  IN  /\ nodes[k].status = <<parts[1][1]>>
                      /\ Len(parts[1]) > 1 => nodes[k].state = <<parts[1][2]>>
                      /\ nodes[k].address = parts[2]
                      /\ nodes[k].load = parts[3]
                      /\ nodes[k].datacenter = DatacenterBefore(lines, i)
                      /\ Len(parts) > 6 => nodes[k].rack = PyStr(parts[Len(parts)])

\* C21: every node record produced by status parsing, for any input text, has
\* status equal to 'U' or 'D' and state equal to one of 'N', 'L', 'J', 'M'.
C21_Original ==
    call.fn \in StatusParsers =>
        \A k \in 1..Len(call.ret) :
            /\ call.ret[k].status \in {<<"U">>, <<"D">>}
            /\ call.ret[k].state \in {<<"N">>, <<"L">>, <<"J">>, <<"M">>}

----------------------------------------------------------------------------
(* Properties of _validate_ip_format *)

IpValidated == call.fn = "_validate_ip_format"

Contains(s, ch) == \E i \in 1..Len(s) : s[i] = ch

\* exactly four dot-separated groups of 1 to 3 decimal digits, each with a
\* value in 0..255, and nothing else
IsDottedQuad(ip) ==
    LET groups == Split(ip, ".")
    IN  /\ Len(groups) = 4
        /\ \A g \in 1..4 :
              /\ Len(groups[g]) \in 1..3
              /\ \A j \in 1..Len(groups[g]) : IsDigit(groups[g][j])
              /\ DecimalValue(groups[g]) \in 0..255

\* C22: _validate_ip_format returns true for a dotted-decimal candidate if and
\* only if it consists of exactly four dot-separated groups of 1 to 3 decimal
\* digits, each with a value in 0..255, and nothing else (no extra groups, no
\* other characters).
C22_Original ==
    (IpValidated /\ Contains(call.arg, ".")) =>
        (call.ret <=> IsDottedQuad(call.arg))

\* lo to hi groups of 0 to 4 hexadecimal digits separated by single colons
IsColonGroups(ip, lo, hi) ==
    LET groups == Split(ip, ":")
    IN  /\ Len(groups) \in lo..hi
        /\ \A g \in 1..Len(groups) :
              /\ Len(groups[g]) \in 0..4
              /\ \A j \in 1..Len(groups[g]) : IsHex(groups[g][j])

\* C23: _validate_ip_format accepts as IPv6 exactly the strings made of 2 to 8
\* groups of 0 to 4 hexadecimal digits separated by single colons: every such
\* string is accepted, and no colon-separated string with fewer than 2 or more
\* than 8 groups is accepted.
C23_Original ==
    (IpValidated /\ ~Contains(call.arg, ".")) =>
        (call.ret <=> IsColonGroups(call.arg, 2, 8))

----------------------------------------------------------------------------
(* Properties of the health check *)

HealthChecked == call.fn = "check_health"

\* the second status command returned a result with success
StatusObtained ==
    call.arg.status_cmd.kind = "result" /\ call.arg.status_cmd.success

\* C24: check_health reports 'healthy' only when the cluster is reachable, the
\* cluster status was obtained and all reported nodes are up (at least one
\* node up, none down); it reports 'degraded' when at least one node is up and
\* at least one is down, and 'unhealthy' when at least one node is down and
\* none is up.
C24_Original ==
    HealthChecked =>
        /\ call.ret.status = "healthy" =>
              /\ call.ret.cassandra_reachable
              /\ StatusObtained
              /\ call.ret.up_nodes >= 1
              /\ call.ret.down_nodes = 0
        /\ (call.ret.up_nodes >= 1 /\ call.ret.down_nodes >= 1) =>
              call.ret.status = "degraded"
        /\ (call.ret.down_nodes >= 1 /\ call.ret.up_nodes = 0) =>
              call.ret.status = "unhealthy"

ProbeFailed ==
    ~(call.arg.probe.kind = "result" /\ call.arg.probe.success)

\* C25: whenever the connectivity probe of check_health fails (the status
\* command returns success=false, raises an exception, or does not finish
\* within the 10-second probe timeout), check_health returns status
\* 'unhealthy' with cassandra_reachable=false and error_message 'Cassandra
\* cluster is not reachable', and issues no second status command.
C25_ProbeFailureIsUnhealthy ==
    (HealthChecked /\ ProbeFailed) =>
        /\ call.ret.status = "unhealthy"
        /\ ~call.ret.cassandra_reachable
        /\ call.ret.error_message = "Cassandra cluster is not reachable"
        /\ call.ret.issued = 1

C25_Witness ==
    /\ HealthChecked
    /\ call.arg.probe.kind = "timeout"
    /\ call.arg.status_cmd.kind = "result"
    /\ call.arg.status_cmd.success
    /\ call.ret.status = "unhealthy"
    /\ call.ret.issued = 1

----------------------------------------------------------------------------
(* Properties of the application life cycle *)

\* C26: Application.shutdown is idempotent: after any number of consecutive
\* shutdown calls _running is False, a shutdown call made while _running is
\* False performs no shutdown steps, and the shutdown steps run exactly once
\* per period in which the application was running.
C26_ShutdownIdempotent ==
    /\ app.last.op = "shutdown" =>
          /\ ~app._running
          /\ app.last.ran_steps <=> app.last.was_running
    /\ app.shutdown_steps = IF app._running THEN app.runs - 1 ELSE app.runs

C26_Witness ==
    /\ app.last.op = "shutdown"
    /\ app.last.consecutive = 2
    /\ ~app.last.was_running
    /\ ~app.last.ran_steps
    /\ app.runs = 1
    /\ app.shutdown_steps = 1

\* C29: while the application is running, receipt of SIGINT or SIGTERM
\* initiates a graceful shutdown: after the signal handler runs,
\* Application.shutdown is eventually performed and _running becomes False.
C29_Original ==
    (app._running /\ app.last.op \in Signals) ~> ~app._running

----------------------------------------------------------------------------
(* Properties of the configuration manager *)

\* C28: reload_config keeps the previous configuration when the reload fails:
\* if a configuration was loaded and a later reload_config finds the file
\* unreadable or not valid YAML, the java_home, cassandra_bin_path and
\* api_keys in effect after the call equal those in effect before it.
C28_Original ==
    (/\ config_manager.last = "reload_config"
     /\ ~config_manager.old_config.is_none
     /\ config_manager.file.kind \in {"unreadable", "invalid_yaml"})
    => config_manager.config = config_manager.old_config

----------------------------------------------------------------------------
(* Properties of the executor under cancellation, and of the MCP arguments *)

\* the execute_command call of caller c has ended: it returned a result or
\* it was cancelled
CallEnded(c) == tasks[c].command # "" /\ tasks[c].pc \in {"done", "cancelled"}

\* C27: no child process outlives the execution that spawned it: whenever a
\* NodeToolExecutor.execute_command call ends, either by returning a result or
\* by being cancelled by the 10-second wait_for of
\* check_cassandra_connectivity, the child process it spawned has exited or
\* has been killed.
C27_Original ==
    \A c \in Callers :
        CallEnded(c) => process[c].state \in {"none", "exited", "killed"}

\* C30: the api_key and client_ip entries of a tool call never travel past
\* the MCP layer: the argument mapping that handle_call_tool passes to
\* CommandRegistry.execute_command (and that the registry then logs) contains
\* neither key, and every other entry of the call's arguments is passed on
\* unchanged.
C30_CredentialsStayInMcpLayer ==
    mcp_call.invoked =>
        /\ "api_key" \notin DOMAIN mcp_call.command_args
        /\ "client_ip" \notin DOMAIN mcp_call.command_args
        /\ DOMAIN mcp_call.command_args \subseteq DOMAIN mcp_call.arguments
        /\ \A k \in DOMAIN mcp_call.arguments \ {"api_key", "client_ip"} :
              /\ k \in DOMAIN mcp_call.command_args
              /\ mcp_call.command_args[k] = mcp_call.arguments[k]
        /\ mcp_call.result.target_host = DictGet(mcp_call.arguments, "target_host", PyNone)

C30_Witness ==
    /\ mcp_call.invoked
    /\ DOMAIN mcp_call.arguments = {"api_key", "client_ip", "target_host"}
    /\ mcp_call.command_args = [k \in {"target_host"} |-> PyStr(ValidHost)]
    /\ mcp_call.result.success

============================================================================
